---- MODULE Spec2Model ----
(***************************************************************************)
(* Model of the arcticpy Python layer of ArCTIC (src/python/arcticpy):     *)
(* the model objects (traps, CCD, ROE), the packing of trap parameters,    *)
(* add_cti and the iterative corrector remove_cti.                         *)
(*                                                                         *)
(* Pixel values, densities and timescales are integers: the properties     *)
(* checked here are about control flow, aliasing and argument plumbing,    *)
(* none of which depends on floating-point rounding.  Python objects are   *)
(* records tagged with their class (cls); None is the only NoneType        *)
(* object, a list is an object holding its items, and an optional number   *)
(* is None or a float object.  A local variable that is not yet bound      *)
(* holds the array id 0.  Dwell times are counted in halves of a           *)
(* pixel-transfer time (1.0 is 2, 0.5 is 1).                               *)
(***************************************************************************)
EXTENDS Integers, Sequences, FiniteSets, TLC

VARIABLES
    pc,          \* position of the caller / add_cti / remove_cti
    args,        \* the arguments of the call in progress (never reassigned)
    heap,        \* array id -> [dtype, data]: every numpy array allocated
    loc,         \* local variables of the running functions (array ids etc.)
    coreLog,     \* the argument tuples handed to w.cy_add_cti, in call order
    clipLog,     \* the iterations of remove_cti in which the estimate was clipped
    estLog,      \* the estimate of remove_cti at the end of each iteration
    error,       \* "None" or the exception that ended the call
    stdout,      \* the lines printed by the call in progress, in order
    models,      \* the caller's trap lists, ROEs and CCDs as they are now
    trapsArg,    \* a caller's trap list under construction
    extractOut,  \* "None" or the result of _extract_trap_parameters(trapsArg)
    phasesArg,   \* a caller's CCDPhase list under construction
    ccdOut,      \* "None" or the CCD object constructed from phasesArg
    volumeCall,  \* None or a call phasesArg[1].volume(n_e) with its result
    store,       \* the watermarks of one occupancy store (<<>>: none built)
    storeCall,   \* None or the last operation applied to the store
    expressCall, \* None or a computed express matrix with its inputs
    columns,     \* None or one direction's columns being clocked in any order
    lists,       \* the Python list objects holding CCDPhases, by identity
    ccds,        \* the CCD objects constructed so far, in order
    called,      \* None or one call of a function or constructor, with its result
    bounceCall   \* None or the state of one PixelBounce.perturb_bias call

vars == <<pc, args, heap, loc, coreLog, clipLog, estLog, error, stdout, models,
          trapsArg, extractOut, phasesArg, ccdOut, volumeCall,
          store, storeCall, expressCall, columns, lists, ccds, called, bounceCall>>

cornerVars == <<pc, args, heap, loc, coreLog, clipLog, estLog, error, stdout,
               models>>
trapVars == <<trapsArg, extractOut>>
ccdVars == <<phasesArg, ccdOut>>
storeVars == <<store, storeCall>>
objectVars == <<lists, ccds>>
callVars == <<called, bounceCall>>
unitVars == <<volumeCall, store, storeCall, expressCall, columns, lists, ccds,
              called, bounceCall>>

None == [cls |-> "NoneType"]
List(items) == [cls |-> "list", items |-> items]
Float(value) == [cls |-> "float", value |-> value]

(***************************************************************************)
(* Bounds                                                                  *)
(***************************************************************************)
MaxTraps == 3        \* longest trap list a caller builds
MaxPhases == 2       \* longest CCDPhase list a caller builds
MaxIter == 2         \* largest n_iterations passed to remove_cti

(***************************************************************************)
(* Sequence helpers                                                        *)
(***************************************************************************)
RECURSIVE SumSeq(_)
SumSeq(s) == IF s = <<>> THEN 0 ELSE Head(s) + SumSeq(Tail(s))

(***************************************************************************)
(* traps.py                                                                *)
(***************************************************************************)
AbstractTrap(density, release_timescale) ==
    [cls |-> "AbstractTrap",
     density |-> density,
     release_timescale |-> release_timescale]

TrapInstantCapture(density, release_timescale, fractional_volume_none_exposed, fractional_volume_full_exposed) ==
    [cls |-> "TrapInstantCapture",
     density |-> density,
     release_timescale |-> release_timescale,
     fractional_volume_none_exposed |-> fractional_volume_none_exposed,
     fractional_volume_full_exposed |-> fractional_volume_full_exposed]

TrapSlowCapture(density, release_timescale, capture_timescale) ==
    [cls |-> "TrapSlowCapture",
     density |-> density,
     release_timescale |-> release_timescale,
     capture_timescale |-> capture_timescale]

TrapInstantCaptureContinuum(density, release_timescale, release_timescale_sigma) ==
    [cls |-> "TrapInstantCaptureContinuum",
     density |-> density,
     release_timescale |-> release_timescale,
     release_timescale_sigma |-> release_timescale_sigma]

\* super().__init__(density, release_timescale) first sets capture_timescale
\* to TrapSlowCapture's default 0.0; the subclass then overwrites it.
TrapSlowCaptureContinuum(density, release_timescale, release_timescale_sigma, capture_timescale) ==
    [cls |-> "TrapSlowCaptureContinuum",
     density |-> TrapSlowCapture(density, release_timescale, 0).density,
     release_timescale |->
         TrapSlowCapture(density, release_timescale, 0).release_timescale,
     release_timescale_sigma |-> release_timescale_sigma,
     capture_timescale |-> capture_timescale]

\* The class hierarchy: the direct base class of each trap class.
BaseClass(cls) ==
    CASE cls = "TrapSlowCaptureContinuum" -> "TrapSlowCapture"
      [] cls = "TrapSlowCapture" -> "AbstractTrap"
      [] cls = "TrapInstantCapture" -> "AbstractTrap"
      [] cls = "TrapInstantCaptureContinuum" -> "AbstractTrap"
      [] cls = "AbstractTrap" -> "Dictable"
      [] OTHER -> "object"

RECURSIVE IsSubclass(_, _)
IsSubclass(cls, base) ==
    IF cls = base THEN TRUE
    ELSE IF cls = "object" THEN FALSE
    ELSE IsSubclass(BaseClass(cls), base)

(***************************************************************************)
(* cti.py: _extract_trap_parameters                                        *)
(***************************************************************************)
\* isinstance(trap, cls): also true of subclasses.
TypeIs_isinstance(trap, cls) == IsSubclass(trap.cls, cls)

\* type(trap) == cls
TypeIs(trap, cls) == trap.cls = cls

TrapThirdParam_swapped(trap) ==
    IF TypeIs(trap, "TrapInstantCapture") THEN trap.fractional_volume_none_exposed
    ELSE IF TypeIs(trap, "TrapSlowCapture") THEN trap.capture_timescale
    ELSE IF TypeIs(trap, "TrapInstantCaptureContinuum") THEN trap.release_timescale_sigma
    ELSE trap.capture_timescale

\* the if/elif chain of lines 693-701 (every trap reaching it is of one of
\* the four classes)
TrapThirdParam(trap) ==
    IF TypeIs(trap, "TrapInstantCapture") THEN trap.fractional_volume_none_exposed
    ELSE IF TypeIs(trap, "TrapSlowCapture") THEN trap.capture_timescale
    ELSE IF TypeIs(trap, "TrapInstantCaptureContinuum") THEN trap.release_timescale_sigma
    ELSE trap.release_timescale_sigma

\* the if/elif chain of lines 705-713
TrapFourthParam(trap) ==
    IF TypeIs(trap, "TrapInstantCapture") THEN trap.fractional_volume_full_exposed
    ELSE IF TypeIs(trap, "TrapSlowCapture") THEN 0
    ELSE IF TypeIs(trap, "TrapInstantCaptureContinuum") THEN 0
    ELSE trap.capture_timescale

TrapsOfClass(traps, cls) == SelectSeq(traps, LAMBDA trap : TypeIs(trap, cls))

\* traps = traps_ic + traps_sc + traps_ic_co + traps_sc_co
GroupedTraps(traps) ==
    TrapsOfClass(traps, "TrapInstantCapture")
    \o TrapsOfClass(traps, "TrapSlowCapture")
    \o TrapsOfClass(traps, "TrapInstantCaptureContinuum")
    \o TrapsOfClass(traps, "TrapSlowCaptureContinuum")

\* The result is a record; raised = TRUE stands for the Exception of line 680,
\* in which case nothing else is returned.
_extract_trap_parameters(traps) ==
    LET n_traps_ic == Len(TrapsOfClass(traps, "TrapInstantCapture"))
        n_traps_sc == Len(TrapsOfClass(traps, "TrapSlowCapture"))
        n_traps_ic_co == Len(TrapsOfClass(traps, "TrapInstantCaptureContinuum"))
        n_traps_sc_co == Len(TrapsOfClass(traps, "TrapSlowCaptureContinuum"))
        ordered == GroupedTraps(traps)
    IN  IF n_traps_sc + n_traps_ic + n_traps_ic_co + n_traps_sc_co # Len(traps)
        THEN [raised |-> TRUE]
        ELSE [raised |-> FALSE,
              trap_densities |-> [i \in 1..Len(ordered) |-> ordered[i].density],
              trap_release_timescales |->
                  [i \in 1..Len(ordered) |-> ordered[i].release_timescale],
              trap_third_params |-> [i \in 1..Len(ordered) |-> TrapThirdParam(ordered[i])],
              trap_fourth_params |-> [i \in 1..Len(ordered) |-> TrapFourthParam(ordered[i])],
              n_traps_ic |-> n_traps_ic,
              n_traps_sc |-> n_traps_sc,
              n_traps_ic_co |-> n_traps_ic_co,
              n_traps_sc_co |-> n_traps_sc_co]

(***************************************************************************)
(* cti.py: _set_dummy_parameters, with the ROE and CCD constructors it     *)
(* calls (roe.py, ccd.py)                                                  *)
(***************************************************************************)
roe_type_standard == 0

\* ROE.__init__ (the pixel_bounce_* attributes are stored and never read by
\* add_cti; they are left out)
ROE(dwell_times, prescan_offset, overscan_start, empty_traps_between_columns, empty_traps_for_first_transfers, force_release_away_from_readout, use_integer_express_matrix) ==
    [dwell_times |-> dwell_times,
     prescan_offset |-> prescan_offset,
     overscan_start |-> overscan_start,
     empty_traps_between_columns |-> empty_traps_between_columns,
     empty_traps_for_first_transfers |-> empty_traps_for_first_transfers,
     force_release_away_from_readout |-> force_release_away_from_readout,
     use_integer_express_matrix |-> use_integer_express_matrix,
     n_pumps |-> -1,
     type |-> roe_type_standard]

\* ROE() with every argument defaulted (dwell_times = [1.0])
ROEDefault == ROE(<<2>>, 0, -1, TRUE, FALSE, TRUE, FALSE)

roe_type_charge_injection == 1
roe_type_trap_pumping == 2

\* ROEChargeInjection.__init__: empty_traps_for_first_transfers is always False
ROEChargeInjection(dwell_times, prescan_offset, overscan_start, empty_traps_between_columns, force_release_away_from_readout, use_integer_express_matrix) ==
    [ROE(dwell_times, prescan_offset, overscan_start,
         empty_traps_between_columns, FALSE,
         force_release_away_from_readout, use_integer_express_matrix)
     EXCEPT !.type = roe_type_charge_injection]

\* ROEChargeInjection() with every argument defaulted
ROEChargeInjectionDefault == ROEChargeInjection(<<2>>, 0, -1, TRUE, TRUE, FALSE)

\* the mutant of ROETrapPumping: force_release_away_from_readout keeps the
\* default True of ROE
ROETrapPumping_release_away(dwell_times, prescan_offset, overscan_start, n_pumps, empty_traps_for_first_transfers, use_integer_express_matrix) ==
    [ROE(dwell_times, prescan_offset, overscan_start, TRUE,
         empty_traps_for_first_transfers, TRUE, use_integer_express_matrix)
     EXCEPT !.n_pumps = n_pumps, !.type = roe_type_trap_pumping]

\* ROETrapPumping.__init__: empty_traps_between_columns is always True and
\* force_release_away_from_readout always False
ROETrapPumping(dwell_times, prescan_offset, overscan_start, n_pumps, empty_traps_for_first_transfers, use_integer_express_matrix) ==
    [ROE(dwell_times, prescan_offset, overscan_start, TRUE,
         empty_traps_for_first_transfers, FALSE, use_integer_express_matrix)
     EXCEPT !.n_pumps = n_pumps, !.type = roe_type_trap_pumping]

\* ROETrapPumping() with every argument defaulted (dwell_times = [0.5, 0.5])
ROETrapPumpingDefault == ROETrapPumping(<<1, 1>>, 0, -1, 1, FALSE, FALSE)

CCDPhase(full_well_depth, well_notch_depth, well_fill_power, first_electron_fill) ==
    [full_well_depth |-> full_well_depth,
     well_notch_depth |-> well_notch_depth,
     well_fill_power |-> well_fill_power,
     first_electron_fill |-> first_electron_fill]

\* CCDPhase() with every argument defaulted (full_well_depth = 1e4)
CCDPhaseDefault == CCDPhase(10000, 0, 1, 0)

OrDefault(value, default) == IF value = None THEN default ELSE value.value

\* CCD.__init__: no argument is validated; a given full_well_depth replaces
\* phases by one automatic phase and leaves fraction_of_traps_per_phase as
\* passed.
CCD(phases, fraction_of_traps_per_phase, full_well_depth, well_notch_depth, well_fill_power, first_electron_fill) ==
    LET self_phases ==
            IF full_well_depth # None
            THEN << CCDPhase(full_well_depth.value,
                             OrDefault(well_notch_depth, 0),
                             OrDefault(well_fill_power, 1),
                             OrDefault(first_electron_fill, 0)) >>
            ELSE phases
    IN  [phases |-> self_phases,
         fraction_of_traps_per_phase |-> fraction_of_traps_per_phase,
         full_well_depths |-> [i \in 1..Len(self_phases) |-> self_phases[i].full_well_depth],
         well_notch_depths |-> [i \in 1..Len(self_phases) |-> self_phases[i].well_notch_depth],
         well_fill_powers |-> [i \in 1..Len(self_phases) |-> self_phases[i].well_fill_power],
         first_electron_fills |->
             [i \in 1..Len(self_phases) |-> self_phases[i].first_electron_fill]]

\* CCD() with every argument defaulted
CCDDefault == CCD(<<CCDPhaseDefault>>, <<1>>, None, None, None, None)

_set_dummy_parameters_one_trap ==
    [roe |-> ROEDefault,
     ccd |-> CCD(<<CCDPhase(0, 0, 0, 0)>>, <<0>>, None, None, None, None),
     raised |-> FALSE,
     trap_densities |-> <<0>>,
     trap_release_timescales |-> <<0>>,
     trap_third_params |-> <<0>>,
     trap_fourth_params |-> <<0>>,
     n_traps_ic |-> 1,
     n_traps_sc |-> 0,
     n_traps_ic_co |-> 0,
     n_traps_sc_co |-> 0]

_set_dummy_parameters ==
    [roe |-> ROEDefault,
     ccd |-> CCD(<<CCDPhase(0, 0, 0, 0)>>, <<0>>, None, None, None, None),
     raised |-> FALSE,
     trap_densities |-> <<0>>,
     trap_release_timescales |-> <<0>>,
     trap_third_params |-> <<0>>,
     trap_fourth_params |-> <<0>>,
     n_traps_ic |-> 0,
     n_traps_sc |-> 0,
     n_traps_ic_co |-> 0,
     n_traps_sc_co |-> 0]

(***************************************************************************)
(* numpy arrays.  An array is a heap cell [dtype, data]; a Python variable *)
(* holds the index of its cell, so two variables may name the same array.  *)
(* data is a sequence of rows, each a sequence of pixel values.            *)
(***************************************************************************)
Alloc(h, arr) == [heap |-> Append(h, arr), ref |-> Len(h) + 1]

\* np.copy(a): a new array with the dtype and values of a
NpCopy(h, ref) == Alloc(h, h[ref])

\* a.astype(np.double): always a new array (copy=True), values converted
AsDouble(h, ref) == Alloc(h, [dtype |-> "float64", data |-> h[ref].data])

\* np.asarray(image, dtype=np.double): no copy when image is already double
CopyAsDouble_asarray(h, ref) ==
    IF h[ref].dtype = "float64" THEN [heap |-> h, ref |-> ref]
    ELSE AsDouble(h, ref)

\* np.copy(image).astype(np.double)
CopyAsDouble(h, ref) == AsDouble(NpCopy(h, ref).heap, NpCopy(h, ref).ref)

\* np.zeros(shape)
Zeros(data) == [r \in 1..Len(data) |-> [c \in 1..Len(data[r]) |-> 0]]

\* the array an expression evaluates to, as a tuple of rows
Array(a) == [r \in 1..Len(a) |-> a[r] \o <<>>] \o <<>>

ImSub(a, b) ==
    Array([r \in 1..Len(a) |-> [c \in 1..Len(a[r]) |-> a[r][c] - b[r][c]]])

ImAdd(a, b) ==
    Array([r \in 1..Len(a) |-> [c \in 1..Len(a[r]) |-> a[r][c] + b[r][c]]])

\* a[a < 0.0] = 0.0
ClipAtZero(a) ==
    Array([r \in 1..Len(a) |->
              [c \in 1..Len(a[r]) |-> IF a[r][c] < 0 THEN 0 ELSE a[r][c]]])

Pixels(a) == {a[r][c] : r \in 1..Len(a), c \in 1..Len(a[1])}

\* Python truth value of an int flag
Truthy(x) == x # 0

(***************************************************************************)
(* The compiled core behind w.cy_add_cti.  A stand-in with the properties  *)
(* the specification gives it: a configuration whose CCD phase count       *)
(* differs from the ROE's number of dwell times is rejected before any     *)
(* clocking; a direction whose four trap counts are all zero is skipped;   *)
(* parallel clocking runs along columns and serial clocking along rows of  *)
(* the result; only the pixels of a line inside [window_start,             *)
(* window_stop) are clocked; the traps are emptied before each line when   *)
(* empty_traps_between_columns is set and keep their electrons from one    *)
(* line to the next otherwise; charge is captured from a pixel and         *)
(* released into later pixels without loss; the output is clipped at 0     *)
(* when allow_negative_pixels is false.  The well is linear with one trap  *)
(* level per electron: a pixel of n electrons fills the traps up to level  *)
(* min(n, density); half of the trapped electrons (rounded up) are         *)
(* released into each following pixel.  Express, the time window, pruning, *)
(* the ROE type and the release direction do not change the stand-in.      *)
(***************************************************************************)
Min(a, b) == IF a < b THEN a ELSE b
Max(a, b) == IF a > b THEN a ELSE b

NTraps(packed) ==
    packed.n_traps_ic + packed.n_traps_sc + packed.n_traps_ic_co
    + packed.n_traps_sc_co

TotalDensity(packed) == SumSeq(SubSeq(packed.trap_densities, 1, NTraps(packed)))

\* a clocked direction whose CCD and ROE disagree on the number of phases
PhaseCountMismatch(direction) ==
    /\ NTraps(direction) > 0
    /\ Len(direction.ccd.full_well_depths) # Len(direction.roe.dwell_times)

\* the configuration errors found before clocking begins
cy_add_cti_rejects(par, ser) == PhaseCountMismatch(par) \/ PhaseCountMismatch(ser)

RECURSIVE ClockLine(_, _, _)
ClockLine(line, trapped, density) ==
    IF line = <<>> THEN <<>>
    ELSE LET released == (trapped + 1) \div 2
             kept == trapped - released
             target == Min(Max(Head(line), 0), density)
             captured == Max(0, target - kept)
         IN  <<Head(line) + released - captured>>
             \o ClockLine(Tail(line), kept + captured, density)

\* the electrons left in the traps when the line has been clocked
RECURSIVE TrappedAfter(_, _, _)
TrappedAfter(line, trapped, density) ==
    IF line = <<>> THEN trapped
    ELSE LET released == (trapped + 1) \div 2
             kept == trapped - released
             target == Min(Max(Head(line), 0), density)
             captured == Max(0, target - kept)
         IN  TrappedAfter(Tail(line), kept + captured, density)

\* the mutant of WindowFirst: window_start taken as a 1-based index
WindowFirst_one_based(misc, n) == Max(Min(misc.window_start, n), 1)

\* the first and the last clocked pixel of a line of n pixels (1-based);
\* window_stop = -1 stands for the end of the line
WindowFirst(misc, n) == Min(misc.window_start, n) + 1
WindowLast(misc, n) ==
    IF misc.window_stop < 0 THEN n ELSE Min(misc.window_stop, n)

InWindow(line, misc) ==
    SubSeq(line, WindowFirst(misc, Len(line)), WindowLast(misc, Len(line)))

\* the pixels outside the window keep their input values
ClockWindow(line, trapped, density, misc) ==
    SubSeq(line, 1, WindowFirst(misc, Len(line)) - 1)
    \o ClockLine(InWindow(line, misc), trapped, density)
    \o SubSeq(line, Max(WindowLast(misc, Len(line)),
                        WindowFirst(misc, Len(line)) - 1) + 1, Len(line))

\* the mutant of TrappedAtStart: the flag read the wrong way round
TrappedAtStart_flag_inverted(trapped, direction) ==
    IF direction.roe.empty_traps_between_columns THEN trapped ELSE 0

\* the mutant of TrappedAtStart: the store is never emptied between lines
TrappedAtStart_carried_over(trapped, direction) == trapped

\* the trapped electrons a line starts with
TrappedAtStart(trapped, direction) ==
    IF direction.roe.empty_traps_between_columns THEN 0 ELSE trapped

\* the lines are clocked one after the other, in order
RECURSIVE ClockLines(_, _, _)
ClockLines(lines, trapped, direction) ==
    IF lines = <<>> THEN <<>>
    ELSE LET start == TrappedAtStart(trapped, direction)
             density == TotalDensity(direction)
         IN  <<ClockWindow(Head(lines), start, density, direction.misc)>>
             \o ClockLines(Tail(lines),
                           TrappedAfter(InWindow(Head(lines), direction.misc),
                                        start, density),
                           direction)

\* the electrons in the traps at the end of each line
RECURSIVE BoundAfterLines(_, _, _)
BoundAfterLines(lines, trapped, direction) ==
    IF lines = <<>> THEN <<>>
    ELSE LET left == TrappedAfter(InWindow(Head(lines), direction.misc),
                                  TrappedAtStart(trapped, direction),
                                  TotalDensity(direction))
         IN  <<left>> \o BoundAfterLines(Tail(lines), left, direction)

Transpose(data) ==
    Array([c \in 1..Len(data[1]) |-> [r \in 1..Len(data) |-> data[r][c]]])

ClockParallel(data, direction) ==
    Transpose(ClockLines(Transpose(data), 0, direction))

ClockSerial(data, direction) == ClockLines(data, 0, direction)

AfterParallel(data, par) ==
    IF NTraps(par) > 0 THEN ClockParallel(data, par) ELSE data

AfterSerial(data, par, ser) ==
    IF NTraps(ser) > 0 THEN ClockSerial(AfterParallel(data, par), ser)
    ELSE AfterParallel(data, par)

\* the electrons in the traps of each direction at the end of each line
BoundElectrons(data, par, ser) ==
    [parallel |-> IF NTraps(par) > 0
                  THEN BoundAfterLines(Transpose(data), 0, par) ELSE <<>>,
     serial |-> IF NTraps(ser) > 0
                THEN BoundAfterLines(AfterParallel(data, par), 0, ser)
                ELSE <<>>]

cy_add_cti(data, par, ser, allow_negative_pixels) ==
    IF Truthy(allow_negative_pixels) THEN AfterSerial(data, par, ser)
    ELSE ClipAtZero(AfterSerial(data, par, ser))

(***************************************************************************)
(* cti.py: add_cti and remove_cti, one action per block of the source      *)
(***************************************************************************)
NoLocals ==
    [image_in |-> 0, iteration |-> 0,
     par |-> None, ser |-> None,
     parallel_roe |-> None, parallel_ccd |-> None,
     serial_roe |-> None, serial_ccd |-> None,
     a_image |-> 0, image_trailed |-> 0,
     r_image |-> 0, image_remove_cti |-> 0, image_add_cti |-> 0,
     result |-> 0]

Raise(exception) ==
    /\ pc' = "raised"
    /\ error' = exception

\* one direction of lines 139-192: the caller's traps are packed, or the
\* caller's ROE and CCD are replaced by placeholders
Direction(traps, roe, ccd) ==
    IF traps # None
    THEN _extract_trap_parameters(traps.items) @@ [roe |-> roe, ccd |-> ccd]
    ELSE _set_dummy_parameters

\* the model objects a caller passes, as the caller holds them
CallerModels(a) ==
    [parallel_traps |-> a.parallel_traps, serial_traps |-> a.serial_traps,
     parallel_roe |-> a.parallel_roe, parallel_ccd |-> a.parallel_ccd,
     serial_roe |-> a.serial_roe, serial_ccd |-> a.serial_ccd]

\* the mutant of CallersTraps: the list passed in is put in order in place
CallersTraps_sorted_in_place(traps) ==
    IF traps = None THEN None ELSE List(GroupedTraps(traps.items))

\* the caller's list after _extract_trap_parameters(traps): line 686 binds
\* the local name traps to a new list, traps_ic + traps_sc + ..., and the
\* list passed in keeps its elements in their order
CallersTraps(traps) == traps

\* lines 139-192: the caller's objects are read as they are now; the
\* placeholders of _set_dummy_parameters are bound to local names
add_cti_extract ==
    /\ pc = "a_extract"
    /\ LET par == Direction(models.parallel_traps, models.parallel_roe,
                            models.parallel_ccd)
           ser == Direction(models.serial_traps, models.serial_roe,
                            models.serial_ccd)
       IN  IF par.raised \/ ser.raised
           THEN /\ Raise("Exception")
                /\ UNCHANGED <<loc, models>>
           ELSE /\ pc' = "a_copy"
                /\ models' = [models EXCEPT
                                 !.parallel_traps = CallersTraps(@),
                                 !.serial_traps = CallersTraps(@)]
                /\ loc' = [loc EXCEPT !.par = par, !.ser = ser,
                                      !.parallel_roe = par.roe,
                                      !.parallel_ccd = par.ccd,
                                      !.serial_roe = ser.roe,
                                      !.serial_ccd = ser.ccd]
                /\ UNCHANGED error
    /\ UNCHANGED <<args, heap, coreLog, clipLog, estLog>>
    /\ UNCHANGED <<stdout, trapVars, ccdVars, unitVars>>

\* lines 194-212 (vv_test = False: the test bench is built and not run)
add_cti_copy ==
    /\ pc = "a_copy"
    /\ LET new == CopyAsDouble(heap, loc.image_in)
       IN  /\ heap' = new.heap
           /\ loc' = [loc EXCEPT !.a_image = new.ref]
    /\ pc' = "a_core"
    /\ UNCHANGED <<args, coreLog, clipLog, estLog, error>>
    /\ UNCHANGED <<stdout, models, trapVars, ccdVars, unitVars>>

\* the parallel block built from ROE() instead of the caller's ROE
CoreDirection_default_roe(roe, ccd, packed, misc) ==
    [roe |-> ROEDefault, ccd |-> ccd, misc |-> misc,
     trap_densities |-> packed.trap_densities,
     trap_release_timescales |-> packed.trap_release_timescales,
     trap_third_params |-> packed.trap_third_params,
     trap_fourth_params |-> packed.trap_fourth_params,
     n_traps_ic |-> packed.n_traps_ic,
     n_traps_sc |-> packed.n_traps_sc,
     n_traps_ic_co |-> packed.n_traps_ic_co,
     n_traps_sc_co |-> packed.n_traps_sc_co]

\* one direction of the argument list of lines 218-303
\* the mutant of CoreDirection: the release timescales passed as densities
CoreDirection_timescales_as_densities(roe, ccd, packed, misc) ==
    [roe |-> roe, ccd |-> ccd, misc |-> misc,
     trap_densities |-> packed.trap_release_timescales,
     trap_release_timescales |-> packed.trap_release_timescales,
     trap_third_params |-> packed.trap_third_params,
     trap_fourth_params |-> packed.trap_fourth_params,
     n_traps_ic |-> packed.n_traps_ic,
     n_traps_sc |-> packed.n_traps_sc,
     n_traps_ic_co |-> packed.n_traps_ic_co,
     n_traps_sc_co |-> packed.n_traps_sc_co]

CoreDirection(roe, ccd, packed, misc) ==
    [roe |-> roe, ccd |-> ccd, misc |-> misc,
     trap_densities |-> packed.trap_densities,
     trap_release_timescales |-> packed.trap_release_timescales,
     trap_third_params |-> packed.trap_third_params,
     trap_fourth_params |-> packed.trap_fourth_params,
     n_traps_ic |-> packed.n_traps_ic,
     n_traps_sc |-> packed.n_traps_sc,
     n_traps_ic_co |-> packed.n_traps_ic_co,
     n_traps_sc_co |-> packed.n_traps_sc_co]

PrintLine(text, n) == [text |-> text, n |-> n]

\* what the core prints while it clocks: nothing at verbosity 0, more lines
\* the higher the verbosity
CoreOutput(verbosity) ==
    [k \in 1..verbosity |-> PrintLine("clocking", k)]

\* lines 218-303.  Reading an attribute of a ROE or CCD that is None raises
\* AttributeError while the arguments are evaluated.  The core either
\* rejects the configuration or clocks the image.  Whether the wrapper
\* returns its (already copied) input array or a new one is not visible
\* from the Python layer: both are allowed.
add_cti_core ==
    /\ pc = "a_core"
    /\ IF None \in {loc.parallel_roe, loc.parallel_ccd,
                    loc.serial_roe, loc.serial_ccd}
       THEN /\ Raise("AttributeError")
            /\ UNCHANGED <<heap, loc, coreLog, stdout>>
       ELSE LET parallel == CoreDirection(loc.parallel_roe, loc.parallel_ccd,
                                           loc.par, args.parallel_misc)
                 serial == CoreDirection(loc.serial_roe, loc.serial_ccd,
                                         loc.ser, args.serial_misc)
                 rejected == cy_add_cti_rejects(parallel, serial)
                 out == [dtype |-> "float64",
                         data |-> cy_add_cti(heap[loc.a_image].data, parallel,
                                             serial, args.allow_negative_pixels)]
            IN  /\ coreLog' = Append(coreLog,
                       [image |-> heap[loc.a_image].data,
                        parallel |-> parallel,
                        serial |-> serial,
                        allow_negative_pixels |-> args.allow_negative_pixels,
                        iteration |-> loc.iteration,
                        clocked |-> ~rejected,
                        bound |-> IF rejected THEN None
                                  ELSE BoundElectrons(heap[loc.a_image].data,
                                                      parallel, serial)])
                /\ IF rejected
                   THEN /\ Raise("ConfigurationError")
                        /\ UNCHANGED <<heap, loc, stdout>>
                   ELSE /\ \E inPlace \in BOOLEAN :
                             IF inPlace
                             THEN /\ heap' = [heap EXCEPT ![loc.a_image] = out]
                                  /\ loc' = [loc EXCEPT
                                                !.image_trailed = loc.a_image]
                             ELSE /\ heap' = Alloc(heap, out).heap
                                  /\ loc' = [loc EXCEPT !.image_trailed =
                                                Alloc(heap, out).ref]
                        /\ pc' = "a_bounce"
                        /\ stdout' = stdout \o CoreOutput(args.verbosity)
                        /\ UNCHANGED error
    /\ UNCHANGED <<args, clipLog, estLog, models>>
    /\ UNCHANGED <<trapVars, ccdVars, unitVars>>

\* lines 308-323.  PixelBounce has no method bias_from, so the first element
\* of a non-empty list raises AttributeError; for an empty list bias_total
\* stays all zero.
add_cti_bounce ==
    /\ pc = "a_bounce"
    /\ IF args.pixel_bounce_list = None
       THEN /\ pc' = "a_return"
            /\ UNCHANGED <<heap, error>>
       ELSE LET bias_total == Alloc(heap, [dtype |-> "float64",
                                  data |-> Zeros(heap[loc.a_image].data)])
            IN  IF args.pixel_bounce_list.items # <<>>
                THEN /\ Raise("AttributeError")
                     /\ heap' = bias_total.heap
                ELSE /\ heap' = [bias_total.heap EXCEPT ![loc.image_trailed].data =
                                    ImSub(@, bias_total.heap[bias_total.ref].data)]
                     /\ pc' = "a_return"
                     /\ UNCHANGED error
    /\ UNCHANGED <<args, loc, coreLog, clipLog, estLog>>
    /\ UNCHANGED <<stdout, models, trapVars, ccdVars, unitVars>>

\* lines 325-351 (vv_test = False, header = None): ndarray_plus is a view of
\* image_trailed, not a copy.  Inside remove_cti the value returns to line 476.
add_cti_return ==
    /\ pc = "a_return"
    /\ IF args.fn = "add_cti"
       THEN /\ pc' = "done"
            /\ loc' = [loc EXCEPT !.result = loc.image_trailed]
       ELSE /\ pc' = "r_update"
            /\ loc' = [loc EXCEPT !.image_add_cti = loc.image_trailed]
    /\ UNCHANGED <<args, heap, coreLog, clipLog, estLog, error>>
    /\ UNCHANGED <<stdout, models, trapVars, ccdVars, unitVars>>

\* the mutant of Banner: the version is printed whatever the verbosity
Banner_unconditional(verbosity) == <<PrintLine("version", 0)>>

\* lines 437-438: w.cy_print_version()
Banner(verbosity) ==
    IF verbosity >= 1 THEN <<PrintLine("version", 0)>> ELSE <<>>

\* line 464: print(read_noise.sigmaRN)
ReadNoiseOutput(remove_read_noise) == <<PrintLine("sigmaRN", remove_read_noise)>>

\* lines 434-466 (vv_test = False).  With remove_read_noise > 0 a ReadNoise
\* object is built and its sigmaRN printed; ReadNoise has no method
\* generate_SR_frames_from_image, so line 465 raises AttributeError.
remove_cti_begin ==
    /\ pc = "r_begin"
    /\ LET image == CopyAsDouble(heap, args.image)
           image_remove_cti == CopyAsDouble(image.heap, image.ref)
       IN  /\ heap' = image_remove_cti.heap
           /\ loc' = [loc EXCEPT !.r_image = image.ref,
                                 !.image_remove_cti = image_remove_cti.ref]
    /\ IF args.remove_read_noise > 0
       THEN /\ stdout' = stdout \o Banner(args.verbosity)
                                \o ReadNoiseOutput(args.remove_read_noise)
            /\ Raise("AttributeError")
       ELSE /\ stdout' = stdout \o Banner(args.verbosity)
            /\ pc' = "r_loop"
            /\ UNCHANGED error
    /\ UNCHANGED <<args, coreLog, clipLog, estLog, models>>
    /\ UNCHANGED <<trapVars, ccdVars, unitVars>>

\* lines 472-473: print("Iter %d: " % iteration)
IterLine(verbosity, iteration) ==
    IF verbosity >= 1 THEN <<PrintLine("Iter", iteration)>> ELSE <<>>

\* the mutant of LoopContinues: the body runs at least once
LoopContinues_at_least_once(iteration, n_iterations) ==
    iteration = 0 \/ iteration + 1 <= n_iterations

\* line 471: range(1, n_iterations + 1) has a value after iteration
LoopContinues(iteration, n_iterations) == iteration + 1 <= n_iterations

\* line 471 and the call of lines 476-511: the next value of
\* range(1, n_iterations + 1), or the end of the loop
remove_cti_loop ==
    /\ pc = "r_loop"
    /\ IF LoopContinues(loc.iteration, args.n_iterations)
       THEN /\ pc' = "a_extract"
            /\ loc' = [loc EXCEPT !.iteration = loc.iteration + 1,
                                  !.image_in = loc.image_remove_cti]
            /\ stdout' = stdout \o IterLine(args.verbosity, loc.iteration + 1)
       ELSE /\ pc' = "r_return"
            /\ UNCHANGED <<loc, stdout>>
    /\ UNCHANGED <<args, heap, coreLog, clipLog, estLog, error, models>>
    /\ UNCHANGED <<trapVars, ccdVars, unitVars>>

\* delta with the operands exchanged
Delta_reversed(observed, trailed) == ImSub(trailed, observed)

\* line 514: delta = image - image_add_cti
Delta(observed, trailed) == ImSub(observed, trailed)

\* lines 514-521
remove_cti_update ==
    /\ pc = "r_update"
    /\ LET delta == Alloc(heap, [dtype |-> "float64",
                          data |-> Delta(heap[loc.r_image].data,
                                         heap[loc.image_add_cti].data)])
       IN  heap' = [delta.heap EXCEPT ![loc.image_remove_cti].data =
                       ImAdd(@, delta.heap[delta.ref].data)]
    /\ pc' = "r_clip"
    /\ UNCHANGED <<args, loc, coreLog, clipLog, estLog, error>>
    /\ UNCHANGED <<stdout, models, trapVars, ccdVars, unitVars>>

ClipDue_every_iteration(allow_negative_pixels, iteration) ==
    ~Truthy(allow_negative_pixels)

ClipDue_never(allow_negative_pixels, iteration) == FALSE

\* lines 526-527
ClipDue(allow_negative_pixels, iteration) ==
    ~Truthy(allow_negative_pixels) /\ iteration = 1

\* lines 523-528, the end of the loop body
remove_cti_clip ==
    /\ pc = "r_clip"
    /\ IF ClipDue(args.allow_negative_pixels, loc.iteration)
       THEN /\ heap' = [heap EXCEPT ![loc.image_remove_cti].data = ClipAtZero(@)]
            /\ clipLog' = Append(clipLog, loc.iteration)
       ELSE UNCHANGED <<heap, clipLog>>
    /\ estLog' = Append(estLog, heap'[loc.image_remove_cti].data)
    /\ pc' = "r_loop"
    /\ UNCHANGED <<args, loc, coreLog, error>>
    /\ UNCHANGED <<stdout, models, trapVars, ccdVars, unitVars>>

\* lines 530-571 (remove_read_noise = False, vv_test = False, header = None):
\* ndarray_plus is a view of image_remove_cti
remove_cti_return ==
    /\ pc = "r_return"
    /\ pc' = "done"
    /\ loc' = [loc EXCEPT !.result = loc.image_remove_cti]
    /\ UNCHANGED <<args, heap, coreLog, clipLog, estLog, error>>
    /\ UNCHANGED <<stdout, models, trapVars, ccdVars, unitVars>>

Next ==
    \/ add_cti_extract
    \/ add_cti_copy
    \/ add_cti_core
    \/ add_cti_bounce
    \/ add_cti_return
    \/ remove_cti_begin
    \/ remove_cti_loop
    \/ remove_cti_update
    \/ remove_cti_clip
    \/ remove_cti_return

(***************************************************************************)
(* Callers.  A call is add_cti(image, ...) or remove_cti(image,            *)
(* n_iterations, ...) on the caller's array, which is heap cell 1.         *)
(***************************************************************************)
ImgRows == 2
ImgCols == 2
PixelVals == {-1, 0, 3}
PixelsAt(img, v) == {rc \in (1..ImgRows) \X (1..ImgCols) : img[rc[1]][rc[2]] = v}
\* a zero background with at most one bright and at most one negative pixel
Images ==
    {img \in [1..ImgRows -> [1..ImgCols -> PixelVals]] :
        Cardinality(PixelsAt(img, 3)) <= 1 /\ Cardinality(PixelsAt(img, -1)) <= 1}
Dtypes == {"int64", "float64"}

Misc(express, window_offset, window_start, window_stop, time_start, time_stop, prune_n_electrons, prune_frequency) ==
    [express |-> express, window_offset |-> window_offset,
     window_start |-> window_start, window_stop |-> window_stop,
     time_start |-> time_start, time_stop |-> time_stop,
     prune_n_electrons |-> prune_n_electrons,
     prune_frequency |-> prune_frequency]

\* the defaults of the signature of add_cti (prune_n_electrons in units of 1e-10)
MiscDefault == Misc(0, 0, 0, -1, 0, -1, 1, 20)
MiscOther == Misc(2, 1, 1, 2, 1, 3, 5, 7)

OneTrap == List(<<TrapInstantCapture(1, 1, 0, 0)>>)
TwoTraps == List(<<TrapSlowCapture(1, 2, 1), TrapInstantCapture(1, 1, 0, 0)>>)
ForeignTrap == List(<<TrapInstantCapture(1, 1, 0, 0), AbstractTrap(1, 1)>>)
NoTraps == List(<<>>)
PixelBounce == [cls |-> "PixelBounce"]

ROEOther == ROE(<<2>>, 1, 2, FALSE, TRUE, FALSE, TRUE)
CCDOther == CCD(<<CCDPhaseDefault>>, <<1>>, Float(3), None, None, None)

Calls == {[fn |-> "add_cti", n_iterations |-> 0]}
         \cup {[fn |-> "remove_cti", n_iterations |-> n] : n \in 0..MaxIter}

CallArgs(call, trapCfg, parModel, serModel, parMisc, serMisc, allow_negative_pixels, pixel_bounce_list) ==
    [fn |-> call.fn, image |-> 1, n_iterations |-> call.n_iterations,
     parallel_traps |-> trapCfg[1], serial_traps |-> trapCfg[2],
     parallel_roe |-> parModel[1], parallel_ccd |-> parModel[2],
     serial_roe |-> serModel[1], serial_ccd |-> serModel[2],
     parallel_misc |-> parMisc, serial_misc |-> serMisc,
     allow_negative_pixels |-> allow_negative_pixels,
     pixel_bounce_list |-> pixel_bounce_list,
     remove_read_noise |-> 0, verbosity |-> 1]

Idle ==
    /\ pc = "idle"
    /\ args = None
    /\ heap = <<>>
    /\ loc = NoLocals
    /\ coreLog = <<>>
    /\ clipLog = <<>>
    /\ estLog = <<>>
    /\ error = None
    /\ stdout = <<>>
    /\ models = None

NoTrapsBuilt == trapsArg = <<>> /\ extractOut = None
NoCCDBuilt == phasesArg = <<>> /\ ccdOut = None
NoVolumeCall == volumeCall = None
NoStore == store = <<>> /\ storeCall = None
NoExpressCall == expressCall = None
NoColumns == columns = None
NoObjects == lists = <<>> /\ ccds = <<>>
NoCalls == called = None /\ bounceCall = None
NoUnitCalls ==
    /\ NoVolumeCall /\ NoStore /\ NoExpressCall /\ NoColumns /\ NoObjects
    /\ NoCalls

Start(argSet, images, dtypes) ==
    /\ args \in argSet
    /\ \E dtype \in dtypes, data \in images :
          heap = <<[dtype |-> dtype, data |-> data]>>
    /\ pc = IF args.fn = "add_cti" THEN "a_extract" ELSE "r_begin"
    /\ loc = [NoLocals EXCEPT !.image_in = 1]
    /\ coreLog = <<>>
    /\ clipLog = <<>>
    /\ estLog = <<>>
    /\ error = None
    /\ stdout = <<>>
    /\ models = CallerModels(args)
    /\ NoTrapsBuilt
    /\ NoCCDBuilt
    /\ NoUnitCalls

\* Corrector runs: every image, valid model objects
Init ==
    Start({CallArgs(call, trapCfg, <<ROEDefault, CCDDefault>>,
                    <<ROEDefault, CCDDefault>>, MiscDefault, MiscDefault,
                    allow, None) :
              call \in Calls,
              trapCfg \in {<<OneTrap, None>>, <<None, OneTrap>>,
                           <<TwoTraps, OneTrap>>},
              allow \in {0, 1}},
          Images, {"float64"})

Spec == Init /\ [][Next]_vars

\* Argument plumbing: every combination of present and absent blocks
ArgImages == {<<<<0, 3>>, <<-1, 3>>>>}

InitArgs ==
    Start({CallArgs(call, <<parTraps, serTraps>>, parModel, serModel,
                    parMisc, serMisc, allow, bounce) :
              call \in {c \in Calls : c.n_iterations \in {0, 1}},
              parTraps \in {None, NoTraps, TwoTraps, ForeignTrap},
              serTraps \in {None, NoTraps, OneTrap, ForeignTrap},
              parModel \in {<<None, None>>, <<ROEDefault, CCDDefault>>,
                            <<ROEOther, CCDOther>>},
              serModel \in {<<None, None>>, <<ROEDefault, CCDDefault>>,
                            <<ROEOther, CCDOther>>},
              parMisc \in {MiscDefault, MiscOther},
              serMisc \in {MiscDefault, MiscOther},
              allow \in {0, 1},
              bounce \in {None, List(<<>>), List(<<PixelBounce>>)}},
          ArgImages, Dtypes)

SpecArgs == InitArgs /\ [][Next]_vars

SpecAll == (Init \/ InitArgs) /\ [][Next]_vars

(***************************************************************************)
(* Properties of add_cti and remove_cti                                    *)
(***************************************************************************)
Returned(fn) == pc = "done" /\ args.fn = fn
ResultData == heap[loc.result].data
Observed == heap[args.image].data

\* add_cti as a function of the estimate, for the model of the current call
\* (no pixel bounce)
PackedDirection(traps, roe, ccd, misc) ==
    CoreDirection(Direction(traps, roe, ccd).roe, Direction(traps, roe, ccd).ccd,
                  Direction(traps, roe, ccd), misc)

Trailed(data) ==
    CHOOSE trailed \in
        {cy_add_cti(data, parallel, serial, args.allow_negative_pixels) :
            parallel \in {PackedDirection(args.parallel_traps, args.parallel_roe,
                                          args.parallel_ccd, args.parallel_misc)},
            serial \in {PackedDirection(args.serial_traps, args.serial_roe,
                                        args.serial_ccd, args.serial_misc)}} :
            TRUE

\* one update of the corrector: e + (image - add_cti(e))
Updated(e) == ImAdd(e, ImSub(Observed, Trailed(e)))

\* e_0 = image, e_i = e_(i-1) + (image - add_cti(e_(i-1)))
RECURSIVE PlainEstimate(_)
PlainEstimate(i) ==
    IF i <= 0 THEN Observed
    ELSE CHOOSE next \in {Updated(e) : e \in {PlainEstimate(i - 1)}} : TRUE

\* the same recurrence with e_1 clipped at 0 when allow_negative_pixels is false
RECURSIVE ClippedEstimate(_)
ClippedEstimate(i) ==
    IF i <= 0 THEN Observed
    ELSE CHOOSE next \in
            {IF i = 1 /\ ~Truthy(args.allow_negative_pixels)
             THEN ClipAtZero(Updated(e)) ELSE Updated(e) :
                e \in {ClippedEstimate(i - 1)}} : TRUE

\* C1 as stated: remove_cti returns e_n of the recurrence
\* e_i = e_(i-1) + (image - add_cti(e_(i-1))), add_cti being called exactly
\* n times, the i-th time on e_(i-1) with both blocks.
C1_PlainRecurrence ==
    Returned("remove_cti") =>
        /\ ResultData = PlainEstimate(args.n_iterations)
        /\ Len(coreLog) = args.n_iterations
        /\ \A i \in 1..Len(coreLog) : coreLog[i].image = PlainEstimate(i - 1)

\* C1 amended: remove_cti returns e_n of the recurrence in which e_1 is
\* clipped at 0 when allow_negative_pixels is false; add_cti is called
\* exactly n times, the i-th call (iteration = i) on e_(i-1) with the
\* parallel and the serial block of the caller and the same observed image.
C1_ClippedRecurrence ==
    Returned("remove_cti") =>
        /\ ResultData = ClippedEstimate(args.n_iterations)
        /\ Len(coreLog) = args.n_iterations
        /\ \A i \in 1..Len(coreLog) :
              /\ coreLog[i].image = ClippedEstimate(i - 1)
              /\ coreLog[i].iteration = i
              /\ NTraps(coreLog[i].parallel) =
                    IF args.parallel_traps = None THEN 0
                    ELSE Len(args.parallel_traps.items)
              /\ NTraps(coreLog[i].serial) =
                    IF args.serial_traps = None THEN 0
                    ELSE Len(args.serial_traps.items)

C1_Witness ==
    /\ Returned("remove_cti")
    /\ args.n_iterations >= 2
    /\ args.parallel_traps # None /\ args.serial_traps # None
    /\ ResultData # Observed
    /\ ResultData # PlainEstimate(args.n_iterations)

\* C2: no step of add_cti or remove_cti changes the caller's array (so it is
\* intact whether the call returns or raises), and the returned image is a
\* different array.
C2_CallerImageUntouched ==
    [][/\ heap'[args.image] = heap[args.image]
       /\ pc' = "done" => loc'.result # args.image]_vars

C2_Witness ==
    /\ pc = "done"
    /\ heap[args.image].dtype = "float64"
    /\ ResultData # Observed

\* C3 as stated: a call with both parallel_traps and serial_traps absent is
\* rejected before the core is invoked and never returns an image.
C3_BothAbsentRejected ==
    (args.parallel_traps = None /\ args.serial_traps = None) =>
        (coreLog = <<>> /\ pc # "done")

PlaceholderCCD == CCD(<<CCDPhase(0, 0, 0, 0)>>, <<0>>, None, None, None, None)

SkippedBlock(block) ==
    /\ block.n_traps_ic = 0 /\ block.n_traps_sc = 0
    /\ block.n_traps_ic_co = 0 /\ block.n_traps_sc_co = 0
    /\ block.roe = ROEDefault
    /\ block.ccd = PlaceholderCCD

CallersBlock(block, traps, roe, ccd, misc) ==
    /\ block.roe = roe
    /\ block.ccd = ccd
    /\ block.misc = misc
    /\ NTraps(block) = Len(traps.items)
    /\ Len(block.trap_densities) = Len(traps.items)
    /\ \A d \in {t.density : t \in {traps.items[i] : i \in DOMAIN traps.items}} :
          Cardinality({i \in DOMAIN traps.items : traps.items[i].density = d})
          = Cardinality({j \in DOMAIN block.trap_densities :
                            block.trap_densities[j] = d})

\* C4: in every call of the core, a direction whose traps are None has zero
\* counts for the four species and the placeholder ROE and CCD, whatever the
\* caller supplied, and a direction whose traps are given is passed the
\* caller's ROE, CCD, traps and express/window/time/prune values.
C4_AbsentDirectionSkipped ==
    \A k \in 1..Len(coreLog) :
        /\ IF args.parallel_traps = None
           THEN SkippedBlock(coreLog[k].parallel)
           ELSE CallersBlock(coreLog[k].parallel, args.parallel_traps,
                             args.parallel_roe, args.parallel_ccd,
                             args.parallel_misc)
        /\ IF args.serial_traps = None
           THEN SkippedBlock(coreLog[k].serial)
           ELSE CallersBlock(coreLog[k].serial, args.serial_traps,
                             args.serial_roe, args.serial_ccd, args.serial_misc)

C4_Witness ==
    /\ coreLog # <<>>
    /\ args.parallel_traps = None
    /\ args.parallel_roe = ROEOther /\ args.parallel_ccd = CCDOther
    /\ args.serial_traps = OneTrap
    /\ args.serial_roe = ROEOther /\ args.serial_misc = MiscOther

\* C5: the estimate is clipped after the update of iteration 1 when
\* allow_negative_pixels is false, and in no other iteration and never when
\* allow_negative_pixels is true: at the end of an iteration its estimate has
\* no negative pixel if it is iteration 1 with the flag false, and is
\* otherwise exactly the unclipped update of the previous estimate.
C5_ClipOnlyAfterFirst ==
    /\ clipLog = IF ~Truthy(args.allow_negative_pixels) /\ estLog # <<>>
                 THEN <<1>> ELSE <<>>
    /\ (pc = "r_loop" /\ estLog # <<>>) =>
          LET i == Len(estLog)
              previous == IF i = 1 THEN Observed ELSE estLog[i - 1]
          IN  IF i = 1 /\ ~Truthy(args.allow_negative_pixels)
              THEN \A v \in Pixels(estLog[i]) : v >= 0
              ELSE estLog[i] = Updated(previous)

C5_Witness ==
    /\ Returned("remove_cti")
    /\ ~Truthy(args.allow_negative_pixels)
    /\ clipLog = <<1>>
    /\ Len(estLog) >= 2
    /\ \E v \in Pixels(estLog[2]) : v < 0
    /\ estLog[1] # Updated(Observed)

TrapParams == {<<1, 1>>, <<2, 3>>, <<-1, 0>>}

CanAddTrap == extractOut = None /\ Len(trapsArg) < MaxTraps

AddTrap(trap) ==
    /\ CanAddTrap
    /\ trapsArg' = Append(trapsArg, trap)
    /\ UNCHANGED <<extractOut, cornerVars, ccdVars, unitVars>>

new_AbstractTrap ==
    \E p \in TrapParams : AddTrap(AbstractTrap(p[1], p[2]))

new_TrapInstantCapture ==
    \E p \in TrapParams : AddTrap(TrapInstantCapture(p[1], p[2], 4, 5))

new_TrapSlowCapture ==
    \E p \in TrapParams : AddTrap(TrapSlowCapture(p[1], p[2], 6))

new_TrapInstantCaptureContinuum ==
    \E p \in TrapParams : AddTrap(TrapInstantCaptureContinuum(p[1], p[2], 7))

new_TrapSlowCaptureContinuum ==
    \E p \in TrapParams : AddTrap(TrapSlowCaptureContinuum(p[1], p[2], 7, 6))

extract_traps ==
    /\ extractOut = None
    /\ extractOut' = _extract_trap_parameters(trapsArg)
    /\ UNCHANGED <<trapsArg, cornerVars, ccdVars, unitVars>>

\* the caller passes the list to add_cti as parallel_traps, serial clocking
\* unused
call_add_cti ==
    /\ pc = "idle"
    /\ extractOut # None
    /\ args' = CallArgs([fn |-> "add_cti", n_iterations |-> 0],
                        <<List(trapsArg), None>>, <<ROEDefault, CCDDefault>>,
                        <<None, None>>, MiscDefault, MiscDefault, 1, None)
    /\ heap' = <<[dtype |-> "float64", data |-> <<<<0, 3>>, <<-1, 3>>>>]>>
    /\ loc' = [NoLocals EXCEPT !.image_in = 1]
    /\ pc' = "a_extract"
    /\ models' = CallerModels(args')
    /\ UNCHANGED <<coreLog, clipLog, estLog, error, stdout, trapVars, ccdVars,
                   unitVars>>

InitTraps == Idle /\ NoTrapsBuilt /\ NoCCDBuilt /\ NoUnitCalls

NextTraps ==
    \/ new_AbstractTrap
    \/ new_TrapInstantCapture
    \/ new_TrapSlowCapture
    \/ new_TrapInstantCaptureContinuum
    \/ new_TrapSlowCaptureContinuum
    \/ extract_traps
    \/ call_add_cti
    \/ add_cti_extract
    \/ add_cti_copy
    \/ add_cti_core
    \/ add_cti_bounce
    \/ add_cti_return

SpecTraps == InitTraps /\ [][NextTraps]_vars

FourSpecies ==
    <<"TrapInstantCapture", "TrapSlowCapture", "TrapInstantCaptureContinuum",
      "TrapSlowCaptureContinuum">>

IndicesOf(cls) == {i \in DOMAIN trapsArg : trapsArg[i].cls = cls}

Extracted == extractOut # None /\ ~extractOut.raised

\* C7: the four counts are the numbers of list elements whose class is
\* exactly TrapInstantCapture, TrapSlowCapture, TrapInstantCaptureContinuum
\* and TrapSlowCaptureContinuum, they sum to the list length, and the
\* extraction raises, returning nothing, exactly when some element is of
\* none of the four classes; add_cti then raises without calling the core.
C7_SpeciesPartition ==
    extractOut # None =>
        /\ extractOut.raised <=>
              \E i \in DOMAIN trapsArg :
                  \A k \in 1..4 : trapsArg[i].cls # FourSpecies[k]
        /\ extractOut.raised => DOMAIN extractOut = {"raised"}
        /\ ~extractOut.raised =>
              /\ extractOut.n_traps_ic = Cardinality(IndicesOf(FourSpecies[1]))
              /\ extractOut.n_traps_sc = Cardinality(IndicesOf(FourSpecies[2]))
              /\ extractOut.n_traps_ic_co = Cardinality(IndicesOf(FourSpecies[3]))
              /\ extractOut.n_traps_sc_co = Cardinality(IndicesOf(FourSpecies[4]))
              /\ NTraps(extractOut) = Len(trapsArg)
        /\ (extractOut.raised /\ pc # "idle") =>
              (pc \in {"a_extract", "raised"} /\ coreLog = <<>>)
        /\ (~extractOut.raised /\ pc = "done") =>
              (Len(coreLog) = 1 /\ NTraps(coreLog[1].parallel) = Len(trapsArg))

C7_Witness ==
    /\ Extracted
    /\ pc = "done"
    /\ Len(trapsArg) >= 3
    /\ IndicesOf("TrapSlowCapture") # {}
    /\ IndicesOf("TrapSlowCaptureContinuum") # {}

Rank(cls) == CHOOSE k \in 1..4 : FourSpecies[k] = cls

\* where element i of the caller's list belongs in the packed arrays: after
\* every trap of an earlier species and after the earlier traps of its own
PackedIndex(i) ==
    Cardinality({j \in DOMAIN trapsArg :
                    \/ Rank(trapsArg[j].cls) < Rank(trapsArg[i].cls)
                    \/ trapsArg[j].cls = trapsArg[i].cls /\ j <= i})

ThirdAndFourth(trap) ==
    CASE trap.cls = "TrapInstantCapture" ->
            <<trap.fractional_volume_none_exposed,
              trap.fractional_volume_full_exposed>>
      [] trap.cls = "TrapSlowCapture" -> <<trap.capture_timescale, 0>>
      [] trap.cls = "TrapInstantCaptureContinuum" ->
            <<trap.release_timescale_sigma, 0>>
      [] trap.cls = "TrapSlowCaptureContinuum" ->
            <<trap.release_timescale_sigma, trap.capture_timescale>>

\* C8: the four packed arrays have the length of the trap list, and the trap
\* at position i of the list is found at the same index of all four arrays,
\* the index being its place in the species-grouped stable order; its third
\* and fourth parameters are those of its species.
C8_StableGroupedPacking ==
    Extracted =>
        /\ Len(extractOut.trap_densities) = Len(trapsArg)
        /\ Len(extractOut.trap_release_timescales) = Len(trapsArg)
        /\ Len(extractOut.trap_third_params) = Len(trapsArg)
        /\ Len(extractOut.trap_fourth_params) = Len(trapsArg)
        /\ \A i \in DOMAIN trapsArg :
              LET j == PackedIndex(i)
              IN  /\ extractOut.trap_densities[j] = trapsArg[i].density
                  /\ extractOut.trap_release_timescales[j] =
                        trapsArg[i].release_timescale
                  /\ extractOut.trap_third_params[j] = ThirdAndFourth(trapsArg[i])[1]
                  /\ extractOut.trap_fourth_params[j] = ThirdAndFourth(trapsArg[i])[2]

C8_Witness ==
    /\ Extracted
    /\ Len(trapsArg) >= 3
    /\ trapsArg[1].cls = "TrapSlowCaptureContinuum"
    /\ trapsArg[2].cls = "TrapInstantCapture"
    /\ trapsArg[3].cls = "TrapInstantCapture"
    /\ trapsArg[2].density # trapsArg[3].density

\* C9 as stated: no trap object with negative density or with
\* release_timescale <= 0 can be constructed.
C9_InvalidTrapRejected ==
    \A i \in DOMAIN trapsArg :
        trapsArg[i].density >= 0 /\ trapsArg[i].release_timescale > 0

(***************************************************************************)
(* A caller building a CCD with the constructors of ccd.py                 *)
(***************************************************************************)
FractionLists == {<<>>, <<0>>, <<1>>, <<2>>, <<0, 1>>, <<1, 0>>, <<1, 1>>}

new_CCDPhase ==
    /\ ccdOut = None
    /\ Len(phasesArg) < MaxPhases
    /\ \E fwd \in {0, 5}, notch \in {0, 5}, power \in {-1, 1}, fef \in {0, 2} :
          phasesArg' = Append(phasesArg, CCDPhase(fwd, notch, power, fef))
    /\ UNCHANGED <<ccdOut, cornerVars, trapVars, unitVars>>

new_CCD ==
    /\ ccdOut = None
    /\ \E fractions \in FractionLists,
          full_well_depth \in {None, Float(5)},
          well_notch_depth \in {None, Float(7)} :
          ccdOut' = CCD(phasesArg, fractions, full_well_depth, well_notch_depth,
                        None, None)
    /\ UNCHANGED <<phasesArg, cornerVars, trapVars, unitVars>>

InitCCD == Idle /\ NoTrapsBuilt /\ NoCCDBuilt /\ NoUnitCalls

NextCCD == new_CCDPhase \/ new_CCD

SpecCCD == InitCCD /\ [][NextCCD]_vars

ValidPhase(phase) ==
    /\ phase.full_well_depth > phase.well_notch_depth
    /\ phase.well_fill_power >= 0
    /\ 0 <= phase.first_electron_fill /\ phase.first_electron_fill <= 1

ValidCCD(ccd) ==
    /\ Len(ccd.fraction_of_traps_per_phase) = Len(ccd.phases)
    /\ SumSeq(ccd.fraction_of_traps_per_phase) = 1
    /\ \A i \in DOMAIN ccd.phases : ValidPhase(ccd.phases[i])

\* C10 as stated: every CCD object that is constructed, and so every CCD
\* that can reach the core, has one fraction per phase, fractions summing to
\* 1 and phases with fwd > notch, p >= 0 and 0 <= fef <= 1.
C10_InvalidCCDRejected ==
    /\ ccdOut # None => ValidCCD(ccdOut)
    /\ \A k \in 1..Len(coreLog) :
          ValidCCD(coreLog[k].parallel.ccd) /\ ValidCCD(coreLog[k].serial.ccd)

(***************************************************************************)
(* Callers of add_cti with every ROE class, one- and two-phase CCDs,       *)
(* windows and trap lists of zero density                                  *)
(***************************************************************************)
\* two phases, all traps in the first
CCDTwoPhase ==
    CCD(<<CCDPhaseDefault, CCDPhase(5, 0, 1, 0)>>, <<1, 0>>, None, None, None,
        None)

ZeroTraps == List(<<TrapInstantCapture(0, 1, 0, 0), TrapSlowCapture(0, 2, 1)>>)

\* window_start = 1, window_stop = 2
MiscWindow == Misc(0, 0, 1, 2, 0, -1, 1, 20)

ParallelModels ==
    {<<ROEDefault, CCDDefault>>, <<ROETrapPumpingDefault, CCDDefault>>,
     <<ROETrapPumpingDefault, CCDTwoPhase>>,
     <<ROEChargeInjectionDefault, CCDDefault>>,
     <<ROEChargeInjectionDefault, CCDTwoPhase>>, <<ROEOther, CCDOther>>}

SerialModels == {<<ROEDefault, CCDDefault>>, <<ROEOther, CCDOther>>}

\* <<parallel, serial>> window settings
MiscPairs ==
    {<<MiscDefault, MiscDefault>>, <<MiscWindow, MiscDefault>>,
     <<MiscDefault, MiscWindow>>}

InitModels ==
    Start({CallArgs([fn |-> "add_cti", n_iterations |-> 0], trapCfg, parModel,
                    serModel, miscPair[1], miscPair[2], allow, None) :
              trapCfg \in {<<OneTrap, None>>, <<None, OneTrap>>,
                           <<TwoTraps, OneTrap>>, <<ZeroTraps, ZeroTraps>>},
              parModel \in ParallelModels, serModel \in SerialModels,
              miscPair \in MiscPairs, allow \in {0, 1}},
          Images, {"float64"})

\* the steps of one add_cti call
NextAdd ==
    \/ add_cti_extract
    \/ add_cti_copy
    \/ add_cti_core
    \/ add_cti_bounce
    \/ add_cti_return

SpecModels == InitModels /\ [][NextAdd]_vars

\* the direction is clocked: its trap list is given and not empty
Clocks(traps) == traps # None /\ traps.items # <<>>

PhasesMatch(roe, ccd) == Len(ccd.phases) = Len(roe.dwell_times)

ConfigMismatch ==
    \/ Clocks(args.parallel_traps)
          /\ ~PhasesMatch(args.parallel_roe, args.parallel_ccd)
    \/ Clocks(args.serial_traps)
          /\ ~PhasesMatch(args.serial_roe, args.serial_ccd)

MaxPower == 2        \* largest well_fill_power of the phases evaluated
MaxElectrons == 5    \* largest electron count passed to volume

Fraction(num, den) == [num |-> num, den |-> den]

\* a / b for integers, b # 0
Quotient(a, b) == IF b > 0 THEN Fraction(a, b) ELSE Fraction(-a, -b)

FracAdd(x, y) == Fraction(x.num * y.den + y.num * x.den, x.den * y.den)
FracSub(x, y) == Fraction(x.num * y.den - y.num * x.den, x.den * y.den)
FracMul(x, y) == Fraction(x.num * y.num, x.den * y.den)
FracLE(x, y) == x.num * y.den <= y.num * x.den
FracEq(x, y) == x.num * y.den = y.num * x.den

\* x ** p for a natural p; numpy gives x ** 0 = 1 for every x, 0 included
RECURSIVE FracPow(_, _)
FracPow(x, p) == IF p = 0 THEN Fraction(1, 1) ELSE FracMul(x, FracPow(x, p - 1))

\* np.clip(x, lo, hi)
NpClip(x, lo, hi) == IF FracLE(x, lo) THEN lo ELSE IF FracLE(hi, x) THEN hi ELSE x

\* the power applied to the product (1 - fef) * clip(...)
Volume_power_of_product(phase, n_e) ==
    LET well_range == phase.full_well_depth - phase.well_notch_depth
    IN  FracAdd(phase.first_electron_fill,
                FracPow(FracMul(FracSub(Fraction(1, 1), phase.first_electron_fill),
                                NpClip(Quotient(n_e - phase.well_notch_depth,
                                                well_range),
                                       Fraction(0, 1), Fraction(1, 1))),
                        phase.well_fill_power))

\* CCDPhase.volume: ** binds tighter than *
Volume(phase, n_e) ==
    LET well_range == phase.full_well_depth - phase.well_notch_depth
    IN  FracAdd(phase.first_electron_fill,
                FracMul(FracSub(Fraction(1, 1), phase.first_electron_fill),
                        FracPow(NpClip(Quotient(n_e - phase.well_notch_depth,
                                                well_range),
                                       Fraction(0, 1), Fraction(1, 1)),
                                phase.well_fill_power)))

\* phases with fwd > notch, 0 <= p and 0 <= fef <= 1
VolumePhases ==
    {CCDPhase(fwd, notch, power, fef) :
        fwd \in {2, 4}, notch \in {0, 1}, power \in 0..MaxPower,
        fef \in {Fraction(0, 1), Fraction(1, 2), Fraction(1, 1)}}

InitVolume ==
    /\ Idle
    /\ NoCalls
    /\ NoTrapsBuilt
    /\ \E phase \in VolumePhases : phasesArg = <<phase>>
    /\ ccdOut = None
    /\ NoVolumeCall
    /\ NoStore
    /\ NoExpressCall
    /\ NoColumns
    /\ NoObjects

CCDPhase_volume ==
    /\ volumeCall = None
    /\ phasesArg # <<>>
    /\ \E n_e \in -1..MaxElectrons :
          volumeCall' = [n_e |-> n_e, result |-> Volume(phasesArg[1], n_e)]
    /\ UNCHANGED <<cornerVars, trapVars, ccdVars, storeVars, expressCall, columns, objectVars,
                   callVars>>

SpecVolume == InitVolume /\ [][CCDPhase_volume]_vars

RECURSIVE IntPow(_, _)
IntPow(k, p) == IF p = 0 THEN 1 ELSE k * IntPow(k, p - 1)

\* fef + (1 - fef) * clip((n_e - notch)/(fwd - notch), 0, 1)^p over the
\* common denominator, the clipped ratio being k / (fwd - notch)
FormulaValue(phase, n_e) ==
    LET range == phase.full_well_depth - phase.well_notch_depth
        k == Min(Max(n_e - phase.well_notch_depth, 0), range)
        fef == phase.first_electron_fill
    IN  Fraction(fef.num * IntPow(range, phase.well_fill_power)
                 + (fef.den - fef.num) * IntPow(k, phase.well_fill_power),
                 fef.den * IntPow(range, phase.well_fill_power))

VolumeIsFormula ==
    /\ FracEq(volumeCall.result, FormulaValue(phasesArg[1], volumeCall.n_e))
    /\ FracLE(Fraction(0, 1), volumeCall.result)
    /\ FracLE(volumeCall.result, Fraction(1, 1))
    /\ volumeCall.n_e >= phasesArg[1].full_well_depth =>
          FracEq(volumeCall.result, Fraction(1, 1))

\* C12 as stated: volume(n_e) is the formula, lies in [0, 1], is 1 at and
\* above the full well depth, and is first_electron_fill at and below the
\* notch for every power p >= 0.
C12_VolumeBelowNotchIsFill ==
    volumeCall # None =>
        /\ VolumeIsFormula
        /\ volumeCall.n_e <= phasesArg[1].well_notch_depth =>
              FracEq(volumeCall.result, phasesArg[1].first_electron_fill)

\* C12 amended: volume(n_e) is the formula, lies in [0, 1] and is 1 at and
\* above the full well depth; at and below the notch it is
\* first_electron_fill when p > 0 and 1 when p = 0.
C12_VolumeBelowNotchPositivePower ==
    volumeCall # None =>
        /\ VolumeIsFormula
        /\ volumeCall.n_e <= phasesArg[1].well_notch_depth =>
              IF phasesArg[1].well_fill_power > 0
              THEN FracEq(volumeCall.result, phasesArg[1].first_electron_fill)
              ELSE FracEq(volumeCall.result, Fraction(1, 1))

C12_Witness ==
    /\ volumeCall # None
    /\ phasesArg[1].well_fill_power = 0
    /\ phasesArg[1].first_electron_fill = Fraction(1, 2)
    /\ volumeCall.n_e <= phasesArg[1].well_notch_depth
    /\ FracEq(volumeCall.result, Fraction(1, 1))

(***************************************************************************)
(* The occupancy store of one pixel phase.  Its code is in the compiled    *)
(* core; the operators follow the specification of the store.  Volumes are *)
(* counted in units of 1/VolumeUnits of the pixel volume and fill          *)
(* fractions in units of 1/FillUnits, so electrons come in units of        *)
(* 1/(VolumeUnits * FillUnits).  A watermark is [volume, fills]: its       *)
(* cumulative volume and one fill per species; it covers the volume above  *)
(* the watermark before it.  The first watermark is always (0, 0).  The    *)
(* exponentials are replaced by rational factors rounded down to the grid  *)
(* (underflow clamps to 0): a fill keeps tau/(tau + dt) of its value in a  *)
(* release and gains dt/(tau_c + dt) of its empty part in a capture.       *)
(* Volume windows and continuum species are not modelled.                  *)
(***************************************************************************)
VolumeUnits == 4     \* grid steps of the cloud volume
FillUnits == 4       \* grid steps of a fill fraction
MaxOps == 4          \* operations applied to one store

Watermark(volume, fills) == [volume |-> volume, fills |-> fills]

Species(traps) == 1..Len(traps)

\* a new store: the single watermark (0, 0)
NewStore(traps) == <<Watermark(0, [s \in Species(traps) |-> 0])>>

\* the mutant of empty: the fills are reset, the watermarks are kept
empty_keeps_watermarks(wms, traps) ==
    [k \in 1..Len(wms) |-> Watermark(wms[k].volume, [s \in Species(traps) |-> 0])]

\* empty(): the single watermark (0, 0)
empty(wms, traps) == NewStore(traps)

\* the part of watermark k that lies below volume V
VolumeBelow(wms, k, V) ==
    IF k = 1 THEN 0
    ELSE Max(0, Min(V, wms[k].volume) - wms[k - 1].volume)

RECURSIVE SumTo(_, _, _, _, _)
SumTo(wms, traps, V, s, k) ==
    IF k = 0 THEN 0
    ELSE VolumeBelow(wms, k, V) * traps[s].density * wms[k].fills[s]
         + SumTo(wms, traps, V, s, k - 1)

\* n_trapped_electrons(V, s): the full watermarks below V and the partial one
n_trapped_electrons(wms, traps, V, s) == SumTo(wms, traps, V, s, Len(wms))

RECURSIVE TotalTrapped(_, _, _)
TotalTrapped(wms, traps, s) ==
    IF s = 0 THEN 0
    ELSE n_trapped_electrons(wms, traps, VolumeUnits, s)
         + TotalTrapped(wms, traps, s - 1)

\* the electrons bound in watermark k alone
RECURSIVE BoundIn(_, _, _, _)
BoundIn(wms, traps, k, s) ==
    IF s = 0 THEN 0
    ELSE VolumeBelow(wms, k, VolumeUnits) * traps[s].density * wms[k].fills[s]
         + BoundIn(wms, traps, k, s - 1)

Without(wms, k) == SubSeq(wms, 1, k - 1) \o SubSeq(wms, k + 1, Len(wms))

\* adjacent watermarks with equal fills for every species are merged
RECURSIVE MergeFrom(_, _)
MergeFrom(wms, k) ==
    IF k + 1 > Len(wms) THEN wms
    ELSE IF wms[k].fills = wms[k + 1].fills THEN MergeFrom(Without(wms, k), k)
    ELSE MergeFrom(wms, k + 1)

Merge(wms) == MergeFrom(wms, 2)

Retained(fill, dt, trap) ==
    (fill * 2 * trap.release_timescale) \div (2 * trap.release_timescale + dt)

\* release(dt): every fill of every watermark decays
release(wms, traps, dt) ==
    Merge([k \in 1..Len(wms) |->
              Watermark(wms[k].volume,
                        [s \in Species(traps) |->
                            Retained(wms[k].fills[s], dt, traps[s])])])

CaptureTimescale(trap) ==
    IF IsSubclass(trap.cls, "TrapSlowCapture") THEN trap.capture_timescale ELSE 0

\* instant capture fills to 1; slow capture gains part of the empty fraction
Raised(fill, dt, trap) ==
    IF CaptureTimescale(trap) = 0 THEN FillUnits
    ELSE fill + ((FillUnits - fill) * dt) \div (2 * CaptureTimescale(trap) + dt)

\* the mutant of SplitAt: a new watermark is appended wherever the cloud is
SplitAt_always_appends(wms, traps, V) ==
    wms \o <<Watermark(V, [s \in Species(traps) |-> 0])>>

\* a cloud above the highest watermark appends a watermark, a cloud inside a
\* watermark splits it, the upper part keeping its fills
SplitAt(wms, traps, V) ==
    IF V > wms[Len(wms)].volume
    THEN wms \o <<Watermark(V, [s \in Species(traps) |-> 0])>>
    ELSE IF \E k \in 2..Len(wms) : wms[k - 1].volume < V /\ V < wms[k].volume
    THEN LET k == CHOOSE j \in 2..Len(wms) :
                      wms[j - 1].volume < V /\ V < wms[j].volume
         IN  SubSeq(wms, 1, k - 1) \o <<Watermark(V, wms[k].fills)>>
             \o SubSeq(wms, k, Len(wms))
    ELSE wms

RaiseBelow(wms, traps, V, dt) ==
    [k \in 1..Len(wms) |->
        IF k > 1 /\ wms[k].volume <= V
        THEN Watermark(wms[k].volume,
                       [s \in Species(traps) |->
                           Raised(wms[k].fills[s], dt, traps[s])])
        ELSE wms[k]]

\* capture(V_cloud, dt, species_list)
capture(wms, traps, V, dt) ==
    Merge(RaiseBelow(SplitAt(wms, traps, V), traps, V, dt))

\* capture_release(V_cloud, dt, species_list): release, then capture
capture_release(wms, traps, V, dt) ==
    capture(release(wms, traps, dt), traps, V, dt)

\* prune: trailing watermarks holding less than the threshold are discarded
RECURSIVE prune(_, _, _)
prune(wms, traps, prune_n_electrons) ==
    IF Len(wms) > 1
       /\ BoundIn(wms, traps, Len(wms), Len(traps)) < prune_n_electrons
    THEN prune(SubSeq(wms, 1, Len(wms) - 1), traps, prune_n_electrons)
    ELSE wms

OpsApplied == IF storeCall = None THEN 0 ELSE storeCall.n

StoreCall(op, before, V, dt) ==
    [op |-> op, prevOp |-> IF storeCall = None THEN "new" ELSE storeCall.op,
     before |-> before, volume |-> V, dt |-> dt,
     n |-> OpsApplied + 1]

CanApply == store # <<>> /\ OpsApplied < MaxOps

\* a store is built empty for the caller's species
InitStore ==
    /\ Idle
    /\ NoCalls
    /\ extractOut = None
    /\ trapsArg \in {OneTrap.items, TwoTraps.items}
    /\ NoCCDBuilt
    /\ NoVolumeCall
    /\ NoExpressCall
    /\ NoColumns
    /\ NoObjects
    /\ store = NewStore(trapsArg)
    /\ storeCall = None

Store_empty ==
    /\ CanApply
    /\ store' = empty(store, trapsArg)
    /\ storeCall' = StoreCall("empty", store, 0, 0)
    /\ UNCHANGED <<cornerVars, trapVars, ccdVars, volumeCall, expressCall, columns, objectVars,
                   callVars>>

Store_release ==
    /\ CanApply
    /\ \E dt \in {1, 2} :
          /\ store' = release(store, trapsArg, dt)
          /\ storeCall' = StoreCall("release", store, 0, dt)
    /\ UNCHANGED <<cornerVars, trapVars, ccdVars, volumeCall, expressCall, columns, objectVars,
                   callVars>>

Store_capture ==
    /\ CanApply
    /\ \E V \in 0..VolumeUnits :
          /\ store' = capture(store, trapsArg, V, 1)
          /\ storeCall' = StoreCall("capture", store, V, 1)
    /\ UNCHANGED <<cornerVars, trapVars, ccdVars, volumeCall, expressCall, columns, objectVars,
                   callVars>>

Store_capture_release ==
    /\ CanApply
    /\ \E V \in 0..VolumeUnits :
          /\ store' = capture_release(store, trapsArg, V, 1)
          /\ storeCall' = StoreCall("capture_release", store, V, 1)
    /\ UNCHANGED <<cornerVars, trapVars, ccdVars, volumeCall, expressCall, columns, objectVars,
                   callVars>>

Store_prune ==
    /\ CanApply
    /\ \E threshold \in {1, FillUnits} :
          /\ store' = prune(store, trapsArg, threshold)
          /\ storeCall' = StoreCall("prune", store, 0, 0)
    /\ UNCHANGED <<cornerVars, trapVars, ccdVars, volumeCall, expressCall, columns, objectVars,
                   callVars>>

NextStore ==
    \/ Store_empty
    \/ Store_release
    \/ Store_capture
    \/ Store_capture_release
    \/ Store_prune

SpecStore == InitStore /\ [][NextStore]_vars

\* C13: in every state of a store the cumulative volumes of the watermarks
\* are strictly ascending and within [0, 1], and every fill of every species
\* is within [0, 1].
C13_WatermarkOrdering ==
    store # <<>> =>
        /\ \A k \in 2..Len(store) : store[k - 1].volume < store[k].volume
        /\ \A k \in 1..Len(store) :
              /\ 0 <= store[k].volume /\ store[k].volume <= VolumeUnits
              /\ \A s \in Species(trapsArg) :
                    0 <= store[k].fills[s] /\ store[k].fills[s] <= FillUnits

\* a capture inside a watermark has split it and the parts differ
C13_Witness ==
    /\ storeCall # None
    /\ storeCall.op = "capture"
    /\ Len(storeCall.before) >= 2
    /\ storeCall.volume < storeCall.before[Len(storeCall.before)].volume
    /\ Len(store) = Len(storeCall.before) + 1

MaxRows == 4         \* most rows of an image an express matrix is made for
MaxExpress == 4      \* largest express requested
MaxOffset == 2       \* largest prescan_offset

\* express = 0 stands for no compression: one step per transfer
ExpressSteps(roe, n_rows, express) ==
    IF express = 0 THEN n_rows + roe.prescan_offset
    ELSE Min(express, n_rows + roe.prescan_offset)

ClipInt(x, lo, hi) == Min(Max(x, lo), hi)

\* the mutant of express_matrix: the multiplier of integer mode rounded down
express_matrix_rounded_down(roe, n_rows, express) ==
    LET transfers == n_rows + roe.prescan_offset
        steps == ExpressSteps(roe, n_rows, express)
        den == IF roe.use_integer_express_matrix THEN 1 ELSE steps
        max_multiplier ==
            IF roe.use_integer_express_matrix
            THEN transfers \div steps
            ELSE transfers
    IN  [den |-> den,
         entries |->
             [e \in 1..steps |->
                 [r \in 1..n_rows |->
                     ClipInt((r + roe.prescan_offset) * den
                             - (e - 1) * max_multiplier,
                             0, max_multiplier)]]]

express_matrix(roe, n_rows, express) ==
    LET transfers == n_rows + roe.prescan_offset
        steps == ExpressSteps(roe, n_rows, express)
        den == IF roe.use_integer_express_matrix THEN 1 ELSE steps
        max_multiplier ==
            IF roe.use_integer_express_matrix
            THEN (transfers + steps - 1) \div steps
            ELSE transfers
    IN  [den |-> den,
         entries |->
             [e \in 1..steps |->
                 [r \in 1..n_rows |->
                     ClipInt((r + roe.prescan_offset) * den
                             - (e - 1) * max_multiplier,
                             0, max_multiplier)]]]

InitExpress ==
    /\ Idle
    /\ NoCalls
    /\ NoTrapsBuilt
    /\ NoCCDBuilt
    /\ NoVolumeCall
    /\ NoStore
    /\ NoExpressCall
    /\ NoColumns
    /\ NoObjects

ROE_express_matrix ==
    /\ expressCall = None
    /\ \E offset \in 0..MaxOffset, integer \in BOOLEAN, n_rows \in 1..MaxRows, express \in 0..MaxExpress :
          LET roe == ROE(<<2>>, offset, -1, TRUE, FALSE, TRUE, integer)
          IN  expressCall' = [roe |-> roe, n_rows |-> n_rows, express |-> express,
                              matrix |-> express_matrix(roe, n_rows, express)]
    /\ UNCHANGED <<cornerVars, trapVars, ccdVars, volumeCall, storeVars, columns, objectVars,
                   callVars>>

SpecExpress == InitExpress /\ [][ROE_express_matrix]_vars

RECURSIVE RowSum(_, _, _)
RowSum(entries, r, e) ==
    IF e = 0 THEN 0 ELSE entries[e][r] + RowSum(entries, r, e - 1)

RECURSIVE SumImage(_)
SumImage(data) ==
    IF data = <<>> THEN 0 ELSE SumSeq(Head(data)) + SumImage(Tail(data))

Last(s) == IF s = <<>> THEN 0 ELSE s[Len(s)]

\* the electrons bound in the stores when the call ends
FinalBound(bound) == Last(bound.parallel) + Last(bound.serial)

\* the electrons a direction's store held at the end of a line and lost when
\* it was emptied for the next line
Emptied(direction, lefts) ==
    IF direction.roe.empty_traps_between_columns /\ lefts # <<>>
    THEN SumSeq(SubSeq(lefts, 1, Len(lefts) - 1))
    ELSE 0

StandardNoWindows(direction) ==
    /\ direction.roe.type = roe_type_standard
    /\ direction.misc.window_start = 0
    /\ direction.misc.window_stop = -1

AddCTIDone ==
    /\ pc = "done"
    /\ args.fn = "add_cti"
    /\ Len(coreLog) = 1
    /\ coreLog[1].clocked

ConservationCase ==
    /\ AddCTIDone
    /\ StandardNoWindows(coreLog[1].parallel)
    /\ StandardNoWindows(coreLog[1].serial)

ZeroDensities(traps) ==
    traps = None \/ \A k \in 1..Len(traps.items) : traps.items[k].density = 0

\* add_cti has returned an image and no clocked direction has a trap of
\* non-zero density
ZeroTrapCall ==
    /\ AddCTIDone
    /\ ZeroDensities(args.parallel_traps)
    /\ ZeroDensities(args.serial_traps)

InputData == heap[args.image].data

Clocked(direction) == NTraps(direction) > 0

\* pixel i of a line (counted from 1) is one of the pixels window_start
\* .. window_stop - 1 (counted from 0) of a clocked direction
InsideWindow(direction, i) ==
    /\ Clocked(direction)
    /\ direction.misc.window_start <= i - 1
    /\ direction.misc.window_stop < 0 \/ i - 1 < direction.misc.window_stop

\* pixel (r, c) is in the window of no clocked direction
OutsideWindows(r, c) ==
    /\ ~InsideWindow(coreLog[1].parallel, r)
    /\ ~InsideWindow(coreLog[1].serial, c)

ColumnDirections ==
    {PackedDirection(OneTrap, ROEDefault, CCDDefault, MiscDefault),
     PackedDirection(TwoTraps, ROEDefault, CCDDefault, MiscDefault),
     PackedDirection(OneTrap, ROEOther, CCDOther, MiscDefault)}

InitColumns ==
    /\ Idle
    /\ NoCalls
    /\ NoTrapsBuilt
    /\ NoCCDBuilt
    /\ NoVolumeCall
    /\ NoStore
    /\ NoExpressCall
    /\ NoObjects
    /\ \E direction \in ColumnDirections, image \in Images :
          columns = [direction |-> direction,
                     input |-> Transpose(image),
                     out |-> [c \in 1..Len(image[1]) |-> <<>>],
                     trapped |-> [c \in 1..Len(image[1]) |-> 0],
                     first |-> 0]

ColumnDone(c) == Len(columns.out[c]) = Len(columns.input[c])

AllColumnsDone == \A c \in 1..Len(columns.input) : ColumnDone(c)

\* the next pixel of column c is clocked against the store of column c
Column_clock_pixel ==
    /\ columns # None
    /\ \E c \in 1..Len(columns.input) :
          /\ ~ColumnDone(c)
          /\ LET pixel == <<columns.input[c][Len(columns.out[c]) + 1]>>
                 density == TotalDensity(columns.direction)
                 last == Len(columns.out[c]) + 1 = Len(columns.input[c])
             IN  columns' =
                     [columns EXCEPT
                         !.out[c] = @ \o ClockLine(pixel, columns.trapped[c],
                                                   density),
                         !.trapped[c] = TrappedAfter(pixel, @, density),
                         !.first = IF @ = 0 /\ last THEN c ELSE @]
    /\ UNCHANGED <<cornerVars, trapVars, ccdVars, volumeCall, storeVars, expressCall, objectVars,
                   callVars>>

SpecColumns == InitColumns /\ [][Column_clock_pixel]_vars

MaxCCDs == 3         \* CCD objects constructed in one run

DefaultPhases == 1

\* a CCD object: the list its self.phases refers to, whether phases was
\* defaulted, and the value CCD.__init__ computed
CCDObject(ref, defaulted, phases) ==
    [ref |-> ref, defaulted |-> defaulted,
     built |-> CCD(phases, <<1>>, None, None, None, None)]

InitObjects ==
    /\ Idle
    /\ NoCalls
    /\ NoTrapsBuilt
    /\ NoCCDBuilt
    /\ NoVolumeCall
    /\ NoStore
    /\ NoExpressCall
    /\ NoColumns
    /\ lists = <<(<<CCDPhaseDefault>>)>>
    /\ ccds = <<>>

\* CCD(): self.phases = phases, the default list itself
CCD_default ==
    /\ Len(ccds) < MaxCCDs
    /\ ccds' = Append(ccds, CCDObject(DefaultPhases, TRUE, lists[DefaultPhases]))
    /\ UNCHANGED lists
    /\ UNCHANGED <<cornerVars, trapVars, ccdVars, volumeCall, storeVars, expressCall, columns,
                   callVars>>

\* CCD(phases=[CCDPhase(...)]) with a list the caller has just made
CCD_with_phases ==
    /\ Len(ccds) < MaxCCDs
    /\ \E fwd \in {5, 7} :
          /\ lists' = Append(lists, <<CCDPhase(fwd, 0, 1, 0)>>)
          /\ ccds' = Append(ccds, CCDObject(Len(lists) + 1, FALSE,
                                            <<CCDPhase(fwd, 0, 1, 0)>>))
    /\ UNCHANGED <<cornerVars, trapVars, ccdVars, volumeCall, storeVars, expressCall, columns,
                   callVars>>

\* ccd.phases.append(CCDPhase(...)) on a constructed CCD
phases_append ==
    /\ \E k \in 1..Len(ccds) :
          /\ Len(lists[ccds[k].ref]) < MaxPhases
          /\ lists' = [lists EXCEPT ![ccds[k].ref] = Append(@, CCDPhase(5, 0, 1, 0))]
    /\ UNCHANGED ccds
    /\ UNCHANGED <<cornerVars, trapVars, ccdVars, volumeCall, storeVars, expressCall, columns,
                   callVars>>

\* ccd.phases[0].full_well_depth = value on a constructed CCD
phase_set_full_well_depth ==
    /\ \E k \in 1..Len(ccds), value \in {5, 7} :
          /\ lists[ccds[k].ref] # <<>>
          /\ lists' = [lists EXCEPT ![ccds[k].ref][1].full_well_depth = value]
    /\ UNCHANGED ccds
    /\ UNCHANGED <<cornerVars, trapVars, ccdVars, volumeCall, storeVars, expressCall, columns,
                   callVars>>

NextObjects ==
    \/ CCD_default
    \/ CCD_with_phases
    \/ phases_append
    \/ phase_set_full_well_depth

SpecObjects == InitObjects /\ [][NextObjects]_vars

\* C20: two CCD objects constructed with default arguments do not share
\* their phases list, and a default-constructed CCD has the phases of
\* CCD() whatever was done to the phases of CCDs constructed before it.
C20_DefaultCCDsShareNothing ==
    \A i \in 1..Len(ccds) :
        ccds[i].defaulted =>
            /\ ccds[i].built = CCDDefault
            /\ \A j \in 1..Len(ccds) : j # i => ccds[j].ref # ccds[i].ref

(***************************************************************************)
(* cti.py: CTI_model_for_HST_ACS.  Julian dates are counted in half days   *)
(* (2452334.5 is 4904669).  A total trap density is [units, factor]: units *)
(* of 1e-9 times factor/1000, the factor being the 1.011 of the source.    *)
(* A trap density is [percent, total]: percent/100 of a total density.     *)
(***************************************************************************)
MaxDateSteps == 150  \* the dates tried: launch - 2 steps .. launch + MaxDateSteps steps
DateStep == 41       \* half days between two dates tried

date_acs_launch == 4904669
date_T_change == 4907840
date_sm4_repair == 4909936

Dates == {date_acs_launch + DateStep * k : k \in -2..MaxDateSteps}

\* the parameters of ROE.__init__
ROEParameters ==
    {"dwell_times", "prescan_offset", "overscan_start",
     "empty_traps_between_columns", "empty_traps_for_first_transfers",
     "force_release_away_from_readout", "use_integer_express_matrix",
     "pixel_bounce_kA", "pixel_bounce_kv", "pixel_bounce_omega",
     "pixel_bounce_gamma"}

Arg(kwargs, name, default) ==
    IF name \in DOMAIN kwargs THEN kwargs[name] ELSE default

\* ROE(**kwargs): a keyword that is no parameter raises TypeError
ROECall(kwargs, parameters) ==
    IF DOMAIN kwargs \subseteq parameters
    THEN [raised |-> "None",
          value |-> ROE(Arg(kwargs, "dwell_times", <<2>>),
                        Arg(kwargs, "prescan_offset", 0),
                        Arg(kwargs, "overscan_start", -1),
                        Arg(kwargs, "empty_traps_between_columns", TRUE),
                        Arg(kwargs, "empty_traps_for_first_transfers", FALSE),
                        Arg(kwargs, "force_release_away_from_readout", TRUE),
                        Arg(kwargs, "use_integer_express_matrix", FALSE))]
    ELSE [raised |-> "TypeError"]

HSTRoeKwargs ==
    [dwell_times |-> <<2>>, empty_traps_between_columns |-> TRUE,
     empty_traps_for_first_transfers |-> FALSE,
     force_release_away_from_readout |-> TRUE,
     use_integer_express_matrix |-> FALSE]

HSTParallelRoeKwargs == HSTRoeKwargs @@ [overscan_start |-> 2048]
HSTSerialRoeKwargs == HSTRoeKwargs @@ [prescan_length |-> 24, read_noise |-> 4]

HSTCCD ==
    CCD(<<CCDPhaseDefault>>, <<1>>, Float(84700), Float(0),
        Float(Fraction(478, 1000)), None)

\* initial_total_trap_density + trap_growth_rate * (date - date_acs_launch)
total_trap_density(date) ==
    IF date < date_sm4_repair
    THEN [units |-> 17845000 + 177440 * (date - date_acs_launch), factor |-> 1000]
    ELSE [units |-> -246591000 + 279490 * (date - date_acs_launch), factor |-> 1011]

relative_densities == <<17, 45, 38>>

release_times(date) ==
    IF date < date_T_change
    THEN <<Fraction(48, 100), Fraction(486, 100), Fraction(2060, 100)>>
    ELSE <<Fraction(74, 100), Fraction(770, 100), Fraction(3700, 100)>>

HSTTraps(date) ==
    List([i \in 1..Len(relative_densities) |->
             TrapInstantCapture([percent |-> relative_densities[i],
                                 total |-> total_trap_density(date)],
                                release_times(date)[i], 0, 0)])

\* the statements of the function in order: the assert, the two ROE calls,
\* the CCDs, the traps, the return of six objects
CTI_model_for_HST_ACS(date, parameters) ==
    IF date < date_acs_launch THEN [raised |-> "AssertionError"]
    ELSE IF ROECall(HSTParallelRoeKwargs, parameters).raised # "None"
    THEN [raised |-> ROECall(HSTParallelRoeKwargs, parameters).raised]
    ELSE IF ROECall(HSTSerialRoeKwargs, parameters).raised # "None"
    THEN [raised |-> ROECall(HSTSerialRoeKwargs, parameters).raised]
    ELSE [raised |-> "None",
          value |-> <<ROECall(HSTParallelRoeKwargs, parameters).value, HSTCCD,
                      HSTTraps(date),
                      ROECall(HSTSerialRoeKwargs, parameters).value, HSTCCD,
                      None>>]

InitHST ==
    /\ Idle
    /\ NoTrapsBuilt
    /\ NoCCDBuilt
    /\ NoVolumeCall /\ NoStore /\ NoExpressCall /\ NoColumns /\ NoObjects
    /\ NoCalls

\* one call, or a second call after a first
call_CTI_model_for_HST_ACS ==
    /\ IF called = None THEN TRUE ELSE called.earlier = None
    /\ \E date \in Dates :
          called' = [fn |-> "CTI_model_for_HST_ACS", date |-> date,
                   result |-> CTI_model_for_HST_ACS(date, ROEParameters),
                   earlier |-> called]
    /\ UNCHANGED <<cornerVars, trapVars, ccdVars, volumeCall, storeVars,
                   expressCall, columns, objectVars, bounceCall>>

SpecHST == InitHST /\ [][call_CTI_model_for_HST_ACS]_vars

SameEpoch(d1, d2) ==
    \/ d1 < date_T_change /\ d2 < date_T_change
    \/ d1 >= date_sm4_repair /\ d2 >= date_sm4_repair

\* the sum of the densities of the traps: all of one total
SumDensities(traps) ==
    [percent |-> SumSeq([i \in 1..Len(traps.items) |->
                            traps.items[i].density.percent]),
     total |-> traps.items[1].density.total]

\* both sums are the same share of totals with the same factor
DensityLess(a, b) ==
    /\ a.percent = b.percent
    /\ a.total.factor = b.total.factor
    /\ a.total.units < b.total.units

HSTRoeAsClaimed(roe) ==
    /\ roe.dwell_times = <<2>>
    /\ roe.empty_traps_between_columns
    /\ ~roe.empty_traps_for_first_transfers
    /\ roe.force_release_away_from_readout
    /\ ~roe.use_integer_express_matrix

HSTCCDAsClaimed(ccd) ==
    /\ Len(ccd.phases) = 1
    /\ ccd.fraction_of_traps_per_phase = <<1>>
    /\ ccd.phases[1].full_well_depth = 84700
    /\ ccd.phases[1].well_notch_depth = 0
    /\ ccd.phases[1].well_fill_power = Fraction(478, 1000)

\* C22: CTI_model_for_HST_ACS(date) rejects a date before the launch; for
\* every later date it returns a ROE and a single-phase CCD with the stated
\* values and traps whose total density is larger than that returned for an
\* earlier date of the same epoch.
C22_HSTModelReturned ==
    called # None =>
        IF called.date < date_acs_launch
        THEN called.result.raised # "None"
        ELSE /\ called.result.raised = "None"
             /\ HSTRoeAsClaimed(called.result.value[1])
             /\ HSTCCDAsClaimed(called.result.value[2])
             /\ (called.earlier # None
                 /\ called.earlier.date < called.date
                 /\ called.earlier.date >= date_acs_launch
                 /\ SameEpoch(called.earlier.date, called.date)) =>
                    DensityLess(SumDensities(called.earlier.result.value[3]),
                                SumDensities(called.result.value[3]))

(***************************************************************************)
(* dictable.py: the dictionary form of an object and its way through JSON. *)
(* A Python dict is a function over its keys; a number is a "float" or an  *)
(* "int" object; JSON text is the sequence of its <<key, literal>> members.*)
(***************************************************************************)
Number(cls, value) == [cls |-> cls, value |-> value]
Str(chars) == [cls |-> "str", value |-> chars]

Builtins == {"float", "int", "str", "NoneType"}

\* inspect.getfullargspec(obj.__init__).args[1:]
ConstructorArgs ==
    [CCDPhase |-> <<"full_well_depth", "well_notch_depth", "well_fill_power",
                    "first_electron_fill">>,
     TrapInstantCapture |-> <<"density", "release_timescale",
                              "fractional_volume_none_exposed",
                              "fractional_volume_full_exposed">>]

get_class_path(cls) == Str(<<"arcticpy", cls>>)
get_class(path) == path.value[Len(path.value)]

Elements(seq) == {seq[i] : i \in 1..Len(seq)}

\* as_dict for an object whose constructor arguments are builtins
as_dict(obj) ==
    IF obj.cls \in Builtins THEN obj
    ELSE [key \in {"type"} \cup Elements(ConstructorArgs[obj.cls]) |->
             IF key = "type" THEN get_class_path(obj.cls) ELSE obj[key]]

\* cls(**kwargs)
Construct(cls, kwargs) ==
    IF cls = "TrapInstantCapture"
    THEN TrapInstantCapture(Arg(kwargs, "density", Number("float", 1)),
                            Arg(kwargs, "release_timescale", Number("float", 1)),
                            Arg(kwargs, "fractional_volume_none_exposed", Number("float", 0)),
                            Arg(kwargs, "fractional_volume_full_exposed", Number("float", 0)))
    ELSE [cls |-> "CCDPhase"]
         @@ CCDPhase(Arg(kwargs, "full_well_depth", Number("float", 10000)),
                     Arg(kwargs, "well_notch_depth", Number("float", 0)),
                     Arg(kwargs, "well_fill_power", Number("float", 1)),
                     Arg(kwargs, "first_electron_fill", Number("float", 0)))

\* Dictable.from_dict for a dict of builtins: pop "type", construct the class
from_dict(cls_dict) ==
    Construct(get_class(cls_dict["type"]),
              [key \in DOMAIN cls_dict \ {"type"} |-> cls_dict[key]])

\* json.dump: a float is written with a decimal point, an int without, a
\* string in quotes
JsonLiteral(value) ==
    IF value.cls = "str" THEN [quoted |-> TRUE, point |-> FALSE, text |-> value.value]
    ELSE [quoted |-> FALSE, point |-> value.cls = "float", text |-> value.value]

\* the members in the order of the dict: "type" first, then the arguments
json_dump(cls_dict, keys) ==
    [i \in 1..Len(keys) |-> <<keys[i], JsonLiteral(cls_dict[keys[i]])>>]

JsonValue(literal) ==
    IF literal.quoted THEN Str(literal.text)
    ELSE Number(IF literal.point THEN "float" ELSE "int", literal.text)

json_load(text) ==
    [key \in {text[i][1] : i \in 1..Len(text)} |->
        JsonValue(text[CHOOSE i \in 1..Len(text) : text[i][1] = key][2])]

\* x.dict(), optionally json.dump and json.load, then from_dict; a class that
\* does not derive from Dictable has no method dict
DictRoundTrip(x, viaJson) ==
    IF ~IsSubclass(x.cls, "Dictable") THEN [raised |-> "AttributeError"]
    ELSE [raised |-> "None",
          value |-> from_dict(IF viaJson
                              THEN json_load(json_dump(as_dict(x),
                                                       <<"type">> \o ConstructorArgs[x.cls]))
                              ELSE as_dict(x))]

DictValues == {Number("float", 1), Number("float", 2), Number("int", 3)}

DictObjects ==
    UNION {{Construct(cls, v) : v \in [Elements(ConstructorArgs[cls]) -> DictValues]} :
              cls \in {"CCDPhase", "TrapInstantCapture"}}

call_DictRoundTrip ==
    /\ called = None
    /\ \E x \in DictObjects, viaJson \in BOOLEAN :
          called' = [fn |-> "from_dict", x |-> x, viaJson |-> viaJson,
                     result |-> DictRoundTrip(x, viaJson)]
    /\ UNCHANGED <<cornerVars, trapVars, ccdVars, volumeCall, storeVars,
                   expressCall, columns, objectVars, bounceCall>>

SpecDict == InitHST /\ [][call_DictRoundTrip]_vars

SameParameters(x, y) ==
    /\ x.cls = y.cls
    /\ \A a \in Elements(ConstructorArgs[x.cls]) : x[a] = y[a]

\* C23: for every CCDPhase and every TrapInstantCapture x, from_dict(x.dict()),
\* directly or after the dictionary went through JSON, is an object of the
\* class of x with constructor parameters equal to those of x.
C23_DictRoundTrip ==
    called # None =>
        /\ called.result.raised = "None"
        /\ SameParameters(called.x, called.result.value)

(***************************************************************************)
(* roe.py: the three constructors and ROEChargeInjection.from_normal_roe,  *)
(* called on their own with every combination of a few argument values.    *)
(***************************************************************************)
MaxPixelsInImage == 2   \* largest n_pixels_in_image passed to from_normal_roe
MaxPumps == 2           \* largest n_pumps passed to ROETrapPumping

\* ROEChargeInjection.from_normal_roe(roe, n_pixels_in_image)
from_normal_roe(roe, n_pixels_in_image) ==
    ROEChargeInjection(roe.dwell_times, roe.prescan_offset + n_pixels_in_image,
                       roe.overscan_start, roe.empty_traps_between_columns,
                       roe.force_release_away_from_readout,
                       roe.use_integer_express_matrix)

DwellTimesArgs == {<<2>>, <<1, 1>>}
OffsetArgs == {0, 1}
OverscanArgs == {-1, 2}

call_ROE ==
    /\ called = None
    /\ \E dwell_times \in DwellTimesArgs, prescan_offset \in OffsetArgs,
          overscan_start \in OverscanArgs, between \in BOOLEAN,
          first \in BOOLEAN, away \in BOOLEAN, integer \in BOOLEAN :
          called' = [fn |-> "ROE", roe |-> None,
                     result |-> ROE(dwell_times, prescan_offset, overscan_start,
                                    between, first, away, integer)]
    /\ UNCHANGED <<cornerVars, trapVars, ccdVars, volumeCall, storeVars,
                   expressCall, columns, objectVars, bounceCall>>

call_ROEChargeInjection ==
    /\ called = None
    /\ \E dwell_times \in DwellTimesArgs, prescan_offset \in OffsetArgs,
          overscan_start \in OverscanArgs, between \in BOOLEAN,
          away \in BOOLEAN, integer \in BOOLEAN :
          called' = [fn |-> "ROEChargeInjection", roe |-> None,
                     result |-> ROEChargeInjection(dwell_times, prescan_offset,
                                                   overscan_start, between,
                                                   away, integer)]
    /\ UNCHANGED <<cornerVars, trapVars, ccdVars, volumeCall, storeVars,
                   expressCall, columns, objectVars, bounceCall>>

call_ROETrapPumping ==
    /\ called = None
    /\ \E dwell_times \in DwellTimesArgs, prescan_offset \in OffsetArgs,
          overscan_start \in OverscanArgs, n_pumps \in -1..MaxPumps,
          first \in BOOLEAN, integer \in BOOLEAN :
          called' = [fn |-> "ROETrapPumping", roe |-> None,
                     result |-> ROETrapPumping(dwell_times, prescan_offset,
                                               overscan_start, n_pumps, first,
                                               integer)]
    /\ UNCHANGED <<cornerVars, trapVars, ccdVars, volumeCall, storeVars,
                   expressCall, columns, objectVars, bounceCall>>

\* from_normal_roe on the ROE a constructor returned
call_from_normal_roe ==
    /\ called # None
    /\ called.fn # "from_normal_roe"
    /\ \E n_pixels_in_image \in 0..MaxPixelsInImage :
          called' = [fn |-> "from_normal_roe", roe |-> called.result,
                     result |-> from_normal_roe(called.result, n_pixels_in_image)]
    /\ UNCHANGED <<cornerVars, trapVars, ccdVars, volumeCall, storeVars,
                   expressCall, columns, objectVars, bounceCall>>

NextROE ==
    \/ call_ROE
    \/ call_ROEChargeInjection
    \/ call_ROETrapPumping
    \/ call_from_normal_roe

SpecROE == InitHST /\ [][NextROE]_vars

\* the type each class sets
TypeOfClass(fn) ==
    CASE fn = "ROE" -> roe_type_standard
      [] fn = "ROETrapPumping" -> roe_type_trap_pumping
      [] OTHER -> roe_type_charge_injection

\* C24: a constructed ROE has the type of its class, one of standard, charge
\* injection and trap pumping; n_pumps is -1 unless it is trap pumping; a
\* charge-injection ROE, from_normal_roe's too, has
\* empty_traps_for_first_transfers false; a trap-pumping ROE has
\* empty_traps_between_columns true and force_release_away_from_readout
\* false, whatever the arguments.
C24_ROETypeInvariants ==
    called # None =>
        /\ called.result.type \in
              {roe_type_standard, roe_type_charge_injection, roe_type_trap_pumping}
        /\ called.result.type = TypeOfClass(called.fn)
        /\ called.fn # "ROETrapPumping" => called.result.n_pumps = -1
        /\ called.fn \in {"ROEChargeInjection", "from_normal_roe"} =>
              ~called.result.empty_traps_for_first_transfers
        /\ called.fn = "ROETrapPumping" =>
              /\ called.result.empty_traps_between_columns
              /\ ~called.result.force_release_away_from_readout

\* from_normal_roe converted a trap-pumping ROE with n_pumps set that empties
\* its traps for the first transfers
C24_Witness ==
    /\ called # None
    /\ called.fn = "from_normal_roe"
    /\ called.roe.empty_traps_for_first_transfers
    /\ called.roe.type = roe_type_trap_pumping
    /\ called.roe.n_pumps = MaxPumps

(***************************************************************************)
(* What add_cti and remove_cti print.                                      *)
(***************************************************************************)
MaxVerbosity == 2    \* largest verbosity a caller passes
MaxSigma == 1        \* largest remove_read_noise a caller passes

InitVerbose ==
    Start({[CallArgs(call, trapCfg, <<ROEDefault, CCDDefault>>,
                     <<ROEDefault, CCDDefault>>, MiscDefault, MiscDefault,
                     allow, pixel_bounce_list)
            EXCEPT !.verbosity = verbosity,
                   !.remove_read_noise =
                       IF call.fn = "remove_cti" THEN sigma ELSE 0] :
              call \in Calls,
              trapCfg \in {<<OneTrap, None>>, <<TwoTraps, OneTrap>>},
              allow \in {0, 1},
              pixel_bounce_list \in {None, List(<<>>), List(<<PixelBounce>>)},
              verbosity \in 0..MaxVerbosity,
              sigma \in 0..MaxSigma},
          Images, {"float64"})

SpecVerbose == InitVerbose /\ [][Next]_vars

Printed(text) == \E i \in 1..Len(stdout) : stdout[i].text = text

InitIterations ==
    Start({[CallArgs([fn |-> "remove_cti", n_iterations |-> 0], trapCfg,
                     <<ROEDefault, CCDDefault>>, <<ROEDefault, CCDDefault>>,
                     MiscDefault, MiscDefault, allow, pixel_bounce_list)
            EXCEPT !.n_iterations = n_iterations] :
              n_iterations \in -1..MaxIter,
              trapCfg \in {<<OneTrap, None>>, <<None, OneTrap>>,
                           <<TwoTraps, OneTrap>>},
              allow \in {0, 1},
              pixel_bounce_list \in {None, List(<<>>), List(<<PixelBounce>>)}},
          Images, {"float64", "int64"})

SpecIterations == InitIterations /\ [][Next]_vars

HasNegativePixel(image) ==
    \E r \in 1..Len(image) : \E c \in 1..Len(image[r]) : image[r][c] < 0

\* C26: remove_cti with n_iterations <= 0 and no read-noise removal never
\* enters add_cti, calls the core not once and clips nothing, and the image
\* it returns equals the input pixel for pixel, negative pixels included,
\* whatever allow_negative_pixels is.
C26_NoIterationsIdentity ==
    (args.fn = "remove_cti" /\ args.n_iterations <= 0) =>
        /\ pc \in {"r_begin", "r_loop", "r_return", "done"}
        /\ coreLog = <<>>
        /\ clipLog = <<>>
        /\ pc = "done" => ResultData = Observed

\* remove_cti(n_iterations = -1, allow_negative_pixels = False) returned an
\* image with a negative pixel
C26_Witness ==
    /\ Returned("remove_cti")
    /\ args.n_iterations = -1
    /\ ~Truthy(args.allow_negative_pixels)
    /\ HasNegativePixel(Observed)
    /\ HasNegativePixel(ResultData)

\* C27: add_cti and remove_cti leave the caller's model objects as they
\* were passed: every attribute of the ROEs and CCDs, and the trap lists
\* with the same elements in the same order, at every point of the call and
\* after every iteration.
C27_ModelsUnchanged ==
    args # None => models = CallerModels(args)

\* remove_cti returned after MaxIter iterations on a parallel trap list that
\* _extract_trap_parameters packs in another order than the caller's
C27_Witness ==
    /\ Returned("remove_cti")
    /\ args.n_iterations = MaxIter
    /\ Len(coreLog) = MaxIter
    /\ args.parallel_traps # None
    /\ GroupedTraps(args.parallel_traps.items) # args.parallel_traps.items
    /\ coreLog[MaxIter].parallel.trap_release_timescales
          # [i \in 1..Len(args.parallel_traps.items) |->
                args.parallel_traps.items[i].release_timescale]

(***************************************************************************)
(* pixel_bounce.py.  Rows, columns and windows are counted from 0 as in    *)
(* the source; an image is a tuple of rows, so pixel (y, x) is             *)
(* image[y + 1][x + 1].  phi is counted in quarter turns.  coeffA and      *)
(* coeffB, which lines 117-118 compute from gamma and omega alone, are     *)
(* carried by the object as whole numbers; oversample is 1, so epsilon     *)
(* is 1.                                                                   *)
(***************************************************************************)
BounceCols == 4      \* columns of the images given to add_pixel_bounce
MaxXi == 2           \* largest strength xi of a PixelBounce

PixelBounceObject(xi, phi, omega, coeffA, coeffB) ==
    [cls |-> "PixelBounce", xi |-> xi, phi |-> phi, omega |-> omega,
     coeffA |-> coeffA, coeffB |-> coeffB]

\* np.cos(phi) and np.sin(phi) of a whole number of quarter turns
CosQuarter(phi) == <<1, 0, -1, 0>>[(phi % 4) + 1]
SinQuarter(phi) == <<0, 1, 0, -1>>[(phi % 4) + 1]

\* lines 102-103: a stop of -1 is the size of the image
WindowStopOr(stop, n) == IF stop = -1 THEN n ELSE stop

\* the mutant of WindowRows: every row of the image is processed
WindowRows_whole_image(image, start, stop) == 0..(Len(image) - 1)

\* the rows parallel_window_start:parallel_window_stop
WindowRows(image, start, stop) == start..(WindowStopOr(stop, Len(image)) - 1)

\* lines 99-124: the state of perturb_bias when the loop is entered, or at
\* the return of line 100 when xi is 0.  carried is the bias_im2 of the last
\* column processed before the impulse was added to it.
BounceStart(pb, image, parallel_window_start, parallel_window_stop, serial_window_start, serial_window_stop) ==
    [pb |-> pb, input |-> image, image |-> image,
     parallel_window_start |-> parallel_window_start,
     parallel_window_stop |-> parallel_window_stop,
     serial_window_start |-> serial_window_start,
     serial_window_stop |-> serial_window_stop,
     rows |-> WindowRows(image, parallel_window_start, parallel_window_stop),
     stop |-> IF pb.xi = 0 THEN serial_window_start
              ELSE WindowStopOr(serial_window_stop, Len(image[1])),
     i |-> serial_window_start + 1,
     bias |-> Zeros(image),
     bias_im1 |-> [y \in WindowRows(image, parallel_window_start,
                                    parallel_window_stop) |-> 0],
     carried |-> None,
     pc |-> "loop",
     result |-> None]

\* lines 125-161: the body of the loop for column st.i
BounceColumn(st) ==
    LET i == st.i
        bias_im2 == st.bias_im1
        bias_im1 == [y \in st.rows |-> st.bias[y + 1][i]]
        delta == [y \in st.rows |-> st.image[y + 1][i + 1] - st.image[y + 1][i]]
        J_A == [y \in st.rows |-> delta[y] * CosQuarter(st.pb.phi) * st.pb.omega]
        J_v == [y \in st.rows |-> delta[y] * SinQuarter(st.pb.phi)]
        im1 == [y \in st.rows |-> bias_im1[y] + st.pb.xi * (J_A[y] - J_v[y])]
        im2 == [y \in st.rows |-> bias_im2[y] + st.pb.xi * (2 * J_A[y] - J_v[y])]
    IN  [st EXCEPT
            !.bias = Array([r \in 1..Len(st.bias) |->
                        [c \in 1..Len(st.bias[r]) |->
                            IF (r - 1) \in st.rows /\ c = i + 1
                            THEN st.pb.coeffA * im1[r - 1]
                                 - st.pb.coeffB * im2[r - 1]
                            ELSE st.bias[r][c]]]),
            !.bias_im1 = im1,
            !.carried = [column |-> i, bias_im2 |-> bias_im2],
            !.i = i + 1]

\* line 125: range(serial_window_start + 1, serial_window_stop) has a value
BounceContinues(st) == st.i < st.stop

RECURSIVE BounceLoop(_)
BounceLoop(st) ==
    IF BounceContinues(st) THEN BounceLoop(BounceColumn(st)) ELSE st

\* pixel_bounce.perturb_bias(image, 1, windows...)
perturb_bias(pb, image, parallel_window_start, parallel_window_stop, serial_window_start, serial_window_stop) ==
    BounceLoop(BounceStart(pb, image, parallel_window_start,
                           parallel_window_stop, serial_window_start,
                           serial_window_stop)).bias

\* a zero background with at most two pixels of 1
BounceImages ==
    {img \in [1..ImgRows -> [1..BounceCols -> {0, 1}]] :
        Cardinality({rc \in (1..ImgRows) \X (1..BounceCols) :
                        img[rc[1]][rc[2]] = 1}) <= 2}

BounceObjects ==
    {PixelBounceObject(xi, phi, 1, coeffA, 1) :
        xi \in 0..MaxXi, phi \in {0, 1}, coeffA \in {1, 2}}

ParallelWindows == {<<0, -1>>, <<1, -1>>, <<0, 1>>}
SerialWindows == {<<0, -1>>, <<1, -1>>, <<0, BounceCols - 1>>, <<1, BounceCols - 1>>}

\* add_pixel_bounce(image, [pb], windows...) is called
InitBounce ==
    /\ Idle
    /\ NoTrapsBuilt
    /\ NoCCDBuilt
    /\ NoVolumeCall /\ NoStore /\ NoExpressCall /\ NoColumns /\ NoObjects
    /\ called = None
    /\ \E pb \in BounceObjects, image \in BounceImages,
          par \in ParallelWindows, ser \in SerialWindows :
          bounceCall = BounceStart(pb, Array(image), par[1], par[2], ser[1], ser[2])

perturb_bias_column ==
    /\ bounceCall.pc = "loop"
    /\ BounceContinues(bounceCall)
    /\ bounceCall' = BounceColumn(bounceCall)
    /\ UNCHANGED <<cornerVars, trapVars, ccdVars, volumeCall, storeVars,
                   expressCall, columns, objectVars, called>>

\* lines 163-168 and 296-299: the bias is returned and taken off a copy of
\* the image
add_pixel_bounce_return ==
    /\ bounceCall.pc = "loop"
    /\ ~BounceContinues(bounceCall)
    /\ bounceCall' = [bounceCall EXCEPT
                         !.pc = "done",
                         !.result = ImSub(bounceCall.image, bounceCall.bias)]
    /\ UNCHANGED <<cornerVars, trapVars, ccdVars, volumeCall, storeVars,
                   expressCall, columns, objectVars, called>>

NextBounce ==
    \/ perturb_bias_column
    \/ add_pixel_bounce_return

SpecBounce == InitBounce /\ [][NextBounce]_vars

\* pixel (y, x) lies outside the windows or in column serial_window_start
OutsideBounce(st, y, x) ==
    \/ y < st.parallel_window_start
    \/ y >= (IF st.parallel_window_stop = -1 THEN Len(st.input)
             ELSE st.parallel_window_stop)
    \/ x <= st.serial_window_start
    \/ x >= (IF st.serial_window_stop = -1 THEN Len(st.input[1])
             ELSE st.serial_window_stop)

C29_CarriedBiasIsColumnBefore ==
    bounceCall.carried # None =>
        LET i == bounceCall.carried.column
        IN  \A y \in bounceCall.rows :
               bounceCall.carried.bias_im2[y] =
                  IF i = bounceCall.serial_window_start + 1 THEN 0
                  ELSE bounceCall.bias[y + 1][i - 1]

(***************************************************************************)
(* add_cti and remove_cti with a pixel_bounce_list.                        *)
(***************************************************************************)
BounceLists ==
    {None, List(<<>>),
     List(<<PixelBounceObject(1, 0, 1, 1, 1)>>),
     List(<<PixelBounceObject(1, 0, 1, 1, 1), PixelBounceObject(MaxXi, 1, 1, 2, 1)>>),
     List(<<PixelBounceObject(MaxXi, 1, 1, 2, 1), PixelBounceObject(1, 0, 1, 1, 1)>>)}

InitBounceList ==
    Start({CallArgs(call, trapCfg, <<ROEDefault, CCDDefault>>,
                    <<ROEDefault, CCDDefault>>, MiscDefault, MiscDefault,
                    allow, pixel_bounce_list) :
              call \in Calls,
              trapCfg \in {<<OneTrap, None>>, <<TwoTraps, OneTrap>>},
              allow \in {0, 1},
              pixel_bounce_list \in BounceLists},
          Images, {"float64"})

SpecBounceList == InitBounceList /\ [][Next]_vars

\* the sum of the biases the objects of a list produce from one image
RECURSIVE BiasTotal(_, _, _, _)
BiasTotal(items, image, parallel_misc, serial_misc) ==
    IF items = <<>> THEN Zeros(image)
    ELSE ImAdd(perturb_bias(Head(items), image,
                            parallel_misc.window_start, parallel_misc.window_stop,
                            serial_misc.window_start, serial_misc.window_stop),
               BiasTotal(Tail(items), image, parallel_misc, serial_misc))

\* the image the core handed back in the only core call of an add_cti
TrailedImage ==
    cy_add_cti(coreLog[1].image, coreLog[1].parallel, coreLog[1].serial,
               coreLog[1].allow_negative_pixels)

\* C30: add_cti with a non-empty pixel_bounce_list returns the trailed image
\* minus the sum, over the PixelBounce objects, of the bias each produces
\* from that same trailed image within the windows.
C30_BounceSubtracted ==
    (/\ args.fn = "add_cti"
     /\ pc \in {"done", "raised"}
     /\ Len(coreLog) = 1
     /\ IF args.pixel_bounce_list = None THEN FALSE
        ELSE args.pixel_bounce_list.items # <<>>) =>
        /\ coreLog[1].clocked
        /\ pc = "done"
        /\ ResultData = ImSub(TrailedImage,
                              BiasTotal(args.pixel_bounce_list.items, TrailedImage,
                                        args.parallel_misc, args.serial_misc))

====
